---- MODULE Spec2Model ----
(***************************************************************************)
(* State-machine model of the telemetry acquisition layer of the uConsole  *)
(* RF tools: the GPS, LoRa and RTL-SDR panels (src/gui/*.py), their        *)
(* background reader threads and the GUI (main) thread that drives them.   *)
(*                                                                         *)
(* Threads are interleaved at the granularity of one read or write of a    *)
(* shared attribute, or one blocking call.  A handler of the GUI thread    *)
(* runs to completion except where it blocks in Thread.join(timeout):      *)
(* there it is split in the part before the join and the part after it.    *)
(* No timing is assumed: a bounded join may return while the joined        *)
(* thread is still alive.                                                  *)
(***************************************************************************)
EXTENDS Integers, Sequences, FiniteSets, TLC

\* Successful connects (sessions) one panel may perform in one behaviour.
MaxSessions == 2

\* Python's None for a handle or thread attribute; sessions are numbered from 1.
None == 0

Sessions == 1..MaxSessions

\* Capture threads the SDR panel may start in one behaviour.
MaxThreads == 2

Threads == 1..MaxThreads

VARIABLES
    tab,        \* the panel this behaviour operates (each panel is its own object)
    gps,        \* attributes of GPSPanel (self.running, self.gpsd_socket, ...)
    gps_sess,   \* per GPS session: its handle object and its reader thread
    lora,       \* attributes of LoRaPanel
    lora_sess,  \* per LoRa connect: its HTTP session object and its polling thread
    sdr,        \* attributes of RTLSDRPanel
    sdr_dev,    \* the RtlSdr device objects opened so far
    sdr_thr,    \* the capture threads started so far
    gpsd_wire,  \* the byte stream gpsd sends on the socket, how much of it was
                \* read, and whether gpsd has closed the connection after it
    gpsd_rd,    \* locals of GPSPanel._gpsd_reader and what it emitted
    gps_fix,    \* GPS data attributes of GPSPanel (self.latitude, ...) and the GUI slot
    rtc,        \* attributes of RTCPanel
    rtc_chip,   \* the time registers and control register 1 of the RTC chip
    bcd,        \* a call of dec_to_bcd and of bcd_to_dec on its result
    i2c,        \* the I2C buses of the host: what opening and reading each gives
    dsp,        \* one pass of the capture loop over a spectrum window
    nmea        \* the lines the serial GPS receiver sends and how many were read

gps_vars == <<gps, gps_sess>>
lora_vars == <<lora, lora_sess>>
sdr_vars == <<sdr, sdr_dev, sdr_thr>>
gpsd_vars == <<gpsd_wire, gpsd_rd, gps_fix>>
rtc_vars == <<rtc, rtc_chip, bcd, i2c>>
dsp_vars == <<dsp>>

vars == <<tab, gps, gps_sess, lora, lora_sess, sdr, sdr_dev, sdr_thr, gpsd_wire, gpsd_rd, gps_fix, rtc, rtc_chip, bcd, i2c, dsp, nmea>>

(***************************************************************************)
(* GPS panel, src/gui/gps_panel.py                                         *)
(***************************************************************************)

\* A step of the GPS panel or of one of its threads: the GPS tab is the one
\* operated, and the other panels keep their state.
GpsFrame == tab = "gps" /\ UNCHANGED <<tab, lora, lora_sess, sdr, sdr_dev, sdr_thr, gpsd_vars, rtc_vars, dsp_vars, nmea>>

\* GPSPanel.__init__ : the attributes a new panel has.
GPSPanel_init ==
    [ running     |-> FALSE,
      gpsd_socket |-> None,
      gpsd_thread |-> None,
      serial_port |-> None,
      is_logging  |-> FALSE,
      log_file    |-> None,
      mode_combo  |-> 0,                 \* currentIndex: 0 gpsd, 1 serial
      log_btn     |-> FALSE,             \* log_btn.isEnabled()
      status      |-> "Not Connected",   \* status_label text (its kind)
      pc          |-> "idle" ]           \* where the GUI thread is in a handler

\* A session slot that no connect has used yet.
NoSession ==
    [ kind |-> "none", handle |-> "none", pc |-> "none", obj |-> None, exit |-> "none" ]

\* A thread is alive from start() until its target returns or raises.
Alive(t) == t.pc \notin {"none", "done", "crashed"}

\* The next unused session slot, or None when the bound is reached.
FreshSession(sess) ==
    IF \E n \in Sessions : sess[n].kind = "none"
    THEN CHOOSE n \in Sessions : sess[n].kind = "none"
                                 /\ \A m \in Sessions : m < n => sess[m].kind # "none"
    ELSE None

\* GPSPanel._connect_gpsd, try block completed: socket connected, WATCH sent,
\* running set and the reader thread started.
connect_gpsd_ok(n) ==
    /\ gps' = [gps EXCEPT !.gpsd_socket = n, !.running = TRUE, !.gpsd_thread = n,
                          !.status = "Connected", !.log_btn = TRUE]
    /\ gps_sess' = [gps_sess EXCEPT ![n] =
          [kind |-> "gpsd", handle |-> "open", pc |-> "check", obj |-> None, exit |-> "none"]]

\* Mutant of connect_gpsd_fail: running is set before the connect is known to
\* have succeeded, and stays set when it fails.
connect_gpsd_fail_running ==
    /\ gps' = [gps EXCEPT !.gpsd_socket = None, !.status = "Failed", !.running = TRUE]
    /\ UNCHANGED gps_sess

\* GPSPanel._connect_gpsd, except block: socket(), connect() or send() raised
\* before running was set; a socket that was created is closed and dropped.
connect_gpsd_fail ==
    /\ gps' = [gps EXCEPT !.gpsd_socket = None, !.status = "Failed"]
    /\ UNCHANGED gps_sess

\* GPSPanel._connect_serial, try block completed.
connect_serial_ok(n) ==
    /\ gps' = [gps EXCEPT !.serial_port = n, !.running = TRUE, !.gpsd_thread = n,
                          !.status = "Connected", !.log_btn = TRUE]
    /\ gps_sess' = [gps_sess EXCEPT ![n] =
          [kind |-> "serial", handle |-> "open", pc |-> "start", obj |-> None, exit |-> "none"]]

\* GPSPanel._connect_serial, except block: import serial or serial.Serial() raised.
connect_serial_fail ==
    /\ gps' = [gps EXCEPT !.status = "Failed"]
    /\ UNCHANGED gps_sess

\* GPSPanel.connect_gps: the mode selector decides the transport; the connect
\* succeeds or fails as the environment decides.
connect_gps ==
    IF gps.mode_combo = 0
    THEN \/ /\ FreshSession(gps_sess) # None
            /\ connect_gpsd_ok(FreshSession(gps_sess))
         \/ connect_gpsd_fail
    ELSE \/ /\ FreshSession(gps_sess) # None
            /\ connect_serial_ok(FreshSession(gps_sess))
         \/ connect_serial_fail

\* The handle objects after close() of handle h (None: nothing to close).
CloseHandle(sess, h) ==
    IF h = None THEN sess ELSE [sess EXCEPT ![h].handle = "closed"]

\* GPSPanel.disconnect_gps, lines 465-481: running cleared, both handles closed
\* and dropped; the handler then joins the reader thread (when there is one).
disconnect_gps_begin ==
    /\ gps' = [gps EXCEPT !.running = FALSE, !.gpsd_socket = None, !.serial_port = None,
                          !.pc = "join"]
    /\ gps_sess' = CloseHandle(CloseHandle(gps_sess, gps.gpsd_socket), gps.serial_port)

\* GPSPanel.toggle_logging, stop branch: the log file is closed and dropped.
stop_logging(g) ==
    [g EXCEPT !.log_file = None, !.is_logging = FALSE]

\* Mutant of disconnect_gps_end: file logging is left on.
disconnect_gps_end_keeps_logging ==
    /\ GpsFrame
    /\ gps.pc = "join"
    /\ gps' = [gps EXCEPT !.gpsd_thread = None, !.status = "Disconnected",
                          !.log_btn = FALSE, !.pc = "idle"]
    /\ UNCHANGED gps_sess

\* GPSPanel.disconnect_gps, lines 482-493: join(timeout=2.0) has returned (the
\* thread ended, or the timeout expired), the thread handle is dropped, the
\* labels reset and file logging stopped when it was on.
disconnect_gps_end ==
    /\ GpsFrame
    /\ gps.pc = "join"
    /\ LET g == [gps EXCEPT !.gpsd_thread = None, !.status = "Disconnected",
                            !.log_btn = FALSE, !.pc = "idle"]
       IN  gps' = IF g.is_logging THEN stop_logging(g) ELSE g
    /\ UNCHANGED gps_sess

\* GPSPanel.toggle_connection (connect button, or initialize() at startup).
toggle_connection ==
    /\ GpsFrame
    /\ gps.pc = "idle"
    /\ IF gps.running THEN disconnect_gps_begin ELSE connect_gps

\* GPSPanel.cleanup (window close, module re-initialisation): disconnect
\* whatever the state.
gps_cleanup ==
    /\ GpsFrame
    /\ gps.pc = "idle"
    /\ disconnect_gps_begin

\* GPSPanel.toggle_logging from the log button (enabled only while connected):
\* stop, or start when the file dialog gave a name and open() succeeded.
toggle_logging ==
    /\ GpsFrame
    /\ gps.pc = "idle"
    /\ gps.log_btn
    /\ \/ /\ gps.is_logging
          /\ gps' = stop_logging(gps)
       \/ /\ ~gps.is_logging
          /\ \E opened \in BOOLEAN :
                gps' = IF opened THEN [gps EXCEPT !.log_file = 1, !.is_logging = TRUE]
                       ELSE gps
    /\ UNCHANGED gps_sess

\* The user changes the mode selector (it is never disabled).
gps_select_mode ==
    /\ GpsFrame
    /\ gps.pc = "idle"
    /\ \E m \in {0, 1} : m # gps.mode_combo /\ gps' = [gps EXCEPT !.mode_combo = m]
    /\ UNCHANGED gps_sess

\* A reader thread ends: its target returned (done) or raised (crashed).
ThreadEnds(sess, n, how, why) ==
    [sess EXCEPT ![n].pc = how, ![n].obj = None, ![n].exit = why]

\* GPSPanel._gpsd_reader, line 236, first conjunct: while self.running
gpsd_reader_check(n) ==
    /\ GpsFrame
    /\ gps_sess[n].kind = "gpsd" /\ gps_sess[n].pc = "check"
    /\ gps_sess' = IF gps.running THEN [gps_sess EXCEPT ![n].pc = "check2"]
                   ELSE ThreadEnds(gps_sess, n, "done", "stop")
    /\ UNCHANGED gps

\* GPSPanel._gpsd_reader, lines 236-239: ... and self.gpsd_socket; then the
\* thread calls settimeout/recv on whatever self.gpsd_socket holds now.
gpsd_reader_enter(n) ==
    /\ GpsFrame
    /\ gps_sess[n].kind = "gpsd" /\ gps_sess[n].pc = "check2"
    /\ gps_sess' = IF gps.gpsd_socket = None
                   THEN ThreadEnds(gps_sess, n, "done", "stop")
                   ELSE [gps_sess EXCEPT ![n].pc = "io", ![n].obj = gps.gpsd_socket]
    /\ UNCHANGED gps

\* GPSPanel._gpsd_reader, lines 239-263: recv returns.  On an open socket:
\* a timeout or an empty read (continue), data whose lines were all processed,
\* a socket error (break) or an exception raised while a line was processed
\* (caught by the same except Exception: break).  On a socket that was closed
\* under the thread: an error, or the pending timeout.
gpsd_reader_recv(n) ==
    /\ GpsFrame
    /\ gps_sess[n].kind = "gpsd" /\ gps_sess[n].pc = "io"
    /\ \E r \in {"timeout", "empty", "data", "ioerror", "procerror"} :
          /\ gps_sess[gps_sess[n].obj].handle = "closed" => r \in {"timeout", "ioerror"}
          /\ gps_sess' = IF r \in {"ioerror", "procerror"}
                         THEN ThreadEnds(gps_sess, n, "done", r)
                         ELSE [gps_sess EXCEPT ![n].pc = "check", ![n].obj = None]
    /\ UNCHANGED gps

\* GPSPanel._serial_reader, lines 267-271: import pynmea2, return on ImportError.
serial_reader_start(n) ==
    /\ GpsFrame
    /\ gps_sess[n].kind = "serial" /\ gps_sess[n].pc = "start"
    /\ \E imported \in BOOLEAN :
          gps_sess' = IF imported THEN [gps_sess EXCEPT ![n].pc = "check"]
                      ELSE ThreadEnds(gps_sess, n, "done", "noimport")
    /\ UNCHANGED gps

\* GPSPanel._serial_reader, line 273, first conjunct: while self.running
serial_reader_check(n) ==
    /\ GpsFrame
    /\ gps_sess[n].kind = "serial" /\ gps_sess[n].pc = "check"
    /\ gps_sess' = IF gps.running THEN [gps_sess EXCEPT ![n].pc = "check2"]
                   ELSE ThreadEnds(gps_sess, n, "done", "stop")
    /\ UNCHANGED gps

\* GPSPanel._serial_reader, lines 273-275: ... and self.serial_port.is_open,
\* evaluated outside the try block: on None it raises AttributeError and the
\* thread dies of it.  Then readline() on the port.
serial_reader_enter(n) ==
    /\ GpsFrame
    /\ gps_sess[n].kind = "serial" /\ gps_sess[n].pc = "check2"
    /\ gps_sess' =
          IF gps.serial_port = None
          THEN ThreadEnds(gps_sess, n, "crashed", "crash")
          ELSE IF gps_sess[gps.serial_port].handle = "closed"
               THEN ThreadEnds(gps_sess, n, "done", "stop")
               ELSE [gps_sess EXCEPT ![n].pc = "io", ![n].obj = gps.serial_port]
    /\ UNCHANGED gps

\* GPSPanel._serial_reader, lines 275-287: readline returns.  A line (or the
\* empty read of a timeout) that was handled, a serial error (break), or an
\* exception raised while the sentence was processed (break).
serial_reader_readline(n) ==
    /\ GpsFrame
    /\ gps_sess[n].kind = "serial" /\ gps_sess[n].pc = "io"
    /\ \E r \in {"line", "ioerror", "procerror"} :
          /\ gps_sess[gps_sess[n].obj].handle = "closed" => r \in {"line", "ioerror"}
          /\ gps_sess' = IF r \in {"ioerror", "procerror"}
                         THEN ThreadEnds(gps_sess, n, "done", r)
                         ELSE [gps_sess EXCEPT ![n].pc = "check", ![n].obj = None]
    /\ UNCHANGED gps

\* GPSPanel.is_active
gps_is_active == gps.running

GPSInit ==
    /\ gps = GPSPanel_init
    /\ gps_sess = [n \in Sessions |-> NoSession]

GPSNext ==
    \/ toggle_connection
    \/ gps_cleanup
    \/ disconnect_gps_end
    \/ toggle_logging
    \/ gps_select_mode
    \/ \E n \in Sessions : gpsd_reader_check(n)
    \/ \E n \in Sessions : gpsd_reader_enter(n)
    \/ \E n \in Sessions : gpsd_reader_recv(n)
    \/ \E n \in Sessions : serial_reader_start(n)
    \/ \E n \in Sessions : serial_reader_check(n)
    \/ \E n \in Sessions : serial_reader_enter(n)
    \/ \E n \in Sessions : serial_reader_readline(n)


(***************************************************************************)
(* LoRa panel, src/gui/lora_panel.py                                       *)
(***************************************************************************)

\* A step of the LoRa panel or of one of its threads.
LoraFrame == tab = "lora" /\ UNCHANGED <<tab, gps, gps_sess, sdr, sdr_dev, sdr_thr, gpsd_vars, rtc_vars, dsp_vars, nmea>>

\* Status codes the mesh daemon's HTTP API may answer with; Raised stands for
\* a request that raised (timeout, connection refused) instead of answering.
Raised == -1

Responses == {200, 404, 500, Raised}

\* LoRaPanel.__init__
LoRaPanel_init ==
    [ lora_active        |-> FALSE,
      meshtastic_session |-> None,
      polling_thread     |-> None,
      running            |-> FALSE,
      spi                |-> "none",          \* none | unopened | open
      mode_combo         |-> 0,               \* currentIndex: 0 mesh, 1 direct
      send_btn           |-> FALSE,           \* send_btn.isEnabled()
      status             |-> "Not Connected", \* status_label text (its kind)
      response           |-> None,            \* answer to the last reachability GET
      reply              |-> "none",          \* answer to the last direct-mode warning dialog
      tx_input           |-> "",              \* tx_input.text()
      post               |-> None,            \* answer to the POST of the last send_message, if any
      sent               |-> "none",          \* entry the last send_message logged: TX | Send failed
      meshtasticd        |-> FALSE,           \* systemctl is-active meshtasticd (not an attribute)
      pc                 |-> "idle" ]

\* A LoRa session slot that no connect has used yet; poll is the answer to the
\* GET the polling thread has just made.
NoPoller ==
    [ kind |-> "none", handle |-> "none", pc |-> "none", obj |-> None, exit |-> "none",
      poll |-> None ]

\* LoRaPanel._connect_meshtastic, ImportError branch: requests is not installed;
\* nothing was created.
connect_meshtastic_noimport ==
    /\ lora' = [lora EXCEPT !.status = "requests library not installed"]
    /\ UNCHANGED lora_sess

\* Mutant of connect_meshtastic: every answered status counts as reachable.
connect_meshtastic_any_status(n, r) ==
    /\ lora' = IF r # Raised
               THEN [lora EXCEPT !.meshtastic_session = n, !.response = r,
                                 !.lora_active = TRUE, !.running = TRUE,
                                 !.status = "Connected to Meshtastic",
                                 !.send_btn = TRUE, !.polling_thread = n]
               ELSE [lora EXCEPT !.meshtastic_session = n, !.response = r,
                                 !.status = "Connection failed"]
    /\ lora_sess' = [lora_sess EXCEPT ![n] =
          [kind |-> "mesh", handle |-> "open",
           pc |-> IF r # Raised THEN "check" ELSE "none", obj |-> None, exit |-> "none",
           poll |-> None]]

\* LoRaPanel._connect_meshtastic, lines 215-255 with the requests library: a
\* new Session n is stored, one GET is made with it and answers r.  On 200 the
\* client becomes active and the polling thread is started; on any other
\* status, or when the GET raised, only the status label changes (the Session
\* stays stored).
connect_meshtastic(n, r) ==
    /\ lora' = IF r = 200
               THEN [lora EXCEPT !.meshtastic_session = n, !.response = r,
                                 !.lora_active = TRUE, !.running = TRUE,
                                 !.status = "Connected to Meshtastic",
                                 !.send_btn = TRUE, !.polling_thread = n]
               ELSE [lora EXCEPT !.meshtastic_session = n, !.response = r,
                                 !.status = "Connection failed"]
    /\ lora_sess' = [lora_sess EXCEPT ![n] =
          [kind |-> "mesh", handle |-> "open",
           pc |-> IF r = 200 THEN "check" ELSE "none", obj |-> None, exit |-> "none",
           poll |-> None]]

\* Mutant of connect_direct: the SPI device is opened whatever the user answered.
connect_direct_unconfirmed(reply, outcome) ==
    /\ lora' = CASE outcome = "ok" ->
                      [lora EXCEPT !.reply = reply, !.spi = "open", !.lora_active = TRUE,
                                   !.status = "SPI Connected (SX1262)", !.send_btn = TRUE]
                 [] outcome = "noimport" ->
                      [lora EXCEPT !.reply = reply, !.status = "spidev not installed"]
                 [] OTHER ->
                      [lora EXCEPT !.reply = reply, !.spi = "unopened", !.status = "SPI failed"]
    /\ UNCHANGED lora_sess

\* LoRaPanel._connect_direct: the warning dialog is answered with reply; any
\* answer but Yes returns at once (lines 313-314).  After Yes: spidev imported
\* and opened (ok), spidev missing (noimport), or SpiDev.open raised (openfail:
\* self.spi then holds the unopened object).
connect_direct(reply, outcome) ==
    /\ lora' = CASE reply # "Yes" ->
                      [lora EXCEPT !.reply = reply]
                 [] outcome = "ok" ->
                      [lora EXCEPT !.reply = reply, !.spi = "open", !.lora_active = TRUE,
                                   !.status = "SPI Connected (SX1262)", !.send_btn = TRUE]
                 [] outcome = "noimport" ->
                      [lora EXCEPT !.reply = reply, !.status = "spidev not installed"]
                 [] OTHER ->
                      [lora EXCEPT !.reply = reply, !.spi = "unopened", !.status = "SPI failed"]
    /\ UNCHANGED lora_sess

\* LoRaPanel.connect_lora: mesh or direct as the mode selector says.
connect_lora ==
    IF lora.mode_combo = 0
    THEN \/ connect_meshtastic_noimport
         \/ /\ FreshSession(lora_sess) # None
            /\ \E r \in Responses : connect_meshtastic(FreshSession(lora_sess), r)
    ELSE \E reply \in {"Yes", "No"} :
            \E outcome \in {"ok", "noimport", "openfail"} : connect_direct(reply, outcome)

\* LoRaPanel.disconnect_lora, lines 355-359: both flags cleared; the handler
\* then joins the polling thread (when there is one).
disconnect_lora_begin ==
    /\ lora' = [lora EXCEPT !.running = FALSE, !.lora_active = FALSE, !.pc = "join"]
    /\ UNCHANGED lora_sess

\* LoRaPanel.disconnect_lora, lines 359-378: join(timeout=2.0) has returned,
\* the thread handle is dropped, the Session and the SPI device are closed and
\* dropped, the labels reset.
disconnect_lora_end ==
    /\ LoraFrame
    /\ lora.pc = "join"
    /\ lora' = [lora EXCEPT !.polling_thread = None, !.meshtastic_session = None,
                            !.spi = "none", !.status = "Disconnected",
                            !.send_btn = FALSE, !.pc = "idle"]
    /\ lora_sess' = CloseHandle(lora_sess, lora.meshtastic_session)

\* LoRaPanel.toggle_lora (connect button, or initialize() at startup).
toggle_lora ==
    /\ LoraFrame
    /\ lora.pc = "idle"
    /\ IF lora.lora_active THEN disconnect_lora_begin ELSE connect_lora

\* LoRaPanel.cleanup
lora_cleanup ==
    /\ LoraFrame
    /\ lora.pc = "idle"
    /\ disconnect_lora_begin

\* The user changes the mode selector.
lora_select_mode ==
    /\ LoraFrame
    /\ lora.pc = "idle"
    /\ \E m \in {0, 1} : m # lora.mode_combo /\ lora' = [lora EXCEPT !.mode_combo = m]
    /\ UNCHANGED lora_sess

\* LoRaPanel._poll_meshtastic, line 284, first conjunct: while self.running
poll_check(n) ==
    /\ LoraFrame
    /\ lora_sess[n].pc = "check"
    /\ lora_sess' = IF lora.running THEN [lora_sess EXCEPT ![n].pc = "check2"]
                    ELSE ThreadEnds(lora_sess, n, "done", "stop")
    /\ UNCHANGED lora

\* LoRaPanel._poll_meshtastic, lines 284-287: ... and self.meshtastic_session;
\* then the GET is issued on whatever self.meshtastic_session holds now.
poll_enter(n) ==
    /\ LoraFrame
    /\ lora_sess[n].pc = "check2"
    /\ lora_sess' = IF lora.meshtastic_session = None
                    THEN ThreadEnds(lora_sess, n, "done", "stop")
                    ELSE [lora_sess EXCEPT ![n].pc = "io", ![n].obj = lora.meshtastic_session]
    /\ UNCHANGED lora

\* Mutant of poll_get: a GET that raises ends the polling thread.
poll_get_fatal(n) ==
    /\ LoraFrame
    /\ lora_sess[n].pc = "io"
    /\ \E r \in Responses :
          lora_sess' = IF r = Raised
                       THEN [ThreadEnds(lora_sess, n, "crashed", "ioerror") EXCEPT ![n].poll = r]
                       ELSE [lora_sess EXCEPT ![n].pc = "sleep", ![n].obj = None, ![n].poll = r]
    /\ UNCHANGED lora

\* LoRaPanel._poll_meshtastic, lines 287-296: the GET answers (any status) or
\* raises; either way the loop goes on to its sleep.
poll_get(n) ==
    /\ LoraFrame
    /\ lora_sess[n].pc = "io"
    /\ \E r \in Responses :
          lora_sess' = [lora_sess EXCEPT ![n].pc = "sleep", ![n].obj = None, ![n].poll = r]
    /\ UNCHANGED lora

\* LoRaPanel._poll_meshtastic, line 298: time.sleep(1) returns and the next
\* iteration begins.
poll_sleep(n) ==
    /\ LoraFrame
    /\ lora_sess[n].pc = "sleep"
    /\ lora_sess' = [lora_sess EXCEPT ![n].pc = "check", ![n].poll = None]
    /\ UNCHANGED lora

\* Texts the user types in the message input.
TxTexts == {"", " ", "hi"}

\* str.strip() of a text of TxTexts.
tx_strip(text) == IF text = " " THEN "" ELSE text

\* The user edits the message input.
lora_edit_text ==
    /\ LoraFrame
    /\ lora.pc = "idle"
    /\ \E t \in TxTexts : t # lora.tx_input /\ lora' = [lora EXCEPT !.tx_input = t]
    /\ UNCHANGED lora_sess

\* Mutant of send_message: the status of the POST is not looked at.
send_message_unchecked ==
    /\ LoraFrame
    /\ lora.pc = "idle"
    /\ IF ~lora.lora_active \/ tx_strip(lora.tx_input) = ""
       THEN lora' = [lora EXCEPT !.post = None, !.sent = "none"]
       ELSE IF lora.meshtastic_session # None
       THEN \E r \in Responses :
               lora' = IF r # Raised
                       THEN [lora EXCEPT !.post = r, !.sent = "TX", !.tx_input = ""]
                       ELSE [lora EXCEPT !.post = r, !.sent = "Send failed"]
       ELSE lora' = [lora EXCEPT !.post = None, !.sent = "TX", !.tx_input = ""]
    /\ UNCHANGED lora_sess

\* LoRaPanel.send_message (send button, or Return in the input) with
\* _send_meshtastic and _send_direct: nothing when the client is not active or
\* the stripped text is empty; a POST with the stored Session when there is
\* one, which raises unless it answers 200; otherwise the direct-mode stub.
\* Then the TX entry and the cleared input, or the Send failed entry.
send_message ==
    /\ LoraFrame
    /\ lora.pc = "idle"
    /\ IF ~lora.lora_active \/ tx_strip(lora.tx_input) = ""
       THEN lora' = [lora EXCEPT !.post = None, !.sent = "none"]
       ELSE IF lora.meshtastic_session # None
       THEN \E r \in Responses :
               lora' = IF r = 200
                       THEN [lora EXCEPT !.post = r, !.sent = "TX", !.tx_input = ""]
                       ELSE [lora EXCEPT !.post = r, !.sent = "Send failed"]
       ELSE lora' = [lora EXCEPT !.post = None, !.sent = "TX", !.tx_input = ""]
    /\ UNCHANGED lora_sess

\* The meshtasticd service of this host is started or stopped (systemctl).
systemctl_meshtasticd ==
    /\ LoraFrame
    /\ lora' = [lora EXCEPT !.meshtasticd = ~@]
    /\ UNCHANGED lora_sess

\* LoRaPanel.is_active
lora_is_active == lora.lora_active

LoRaInit ==
    /\ lora = LoRaPanel_init
    /\ lora_sess = [n \in Sessions |-> NoPoller]

LoRaNext ==
    \/ toggle_lora
    \/ lora_cleanup
    \/ disconnect_lora_end
    \/ lora_select_mode
    \/ lora_edit_text
    \/ send_message
    \/ systemctl_meshtasticd
    \/ \E n \in Sessions : poll_check(n)
    \/ \E n \in Sessions : poll_enter(n)
    \/ \E n \in Sessions : poll_get(n)
    \/ \E n \in Sessions : poll_sleep(n)

(***************************************************************************)
(* RTL-SDR panel, src/gui/rtlsdr_panel.py                                  *)
(***************************************************************************)

\* A step of the SDR panel or of one of its threads.
SdrFrame == tab = "sdr" /\ UNCHANGED <<tab, gps, gps_sess, lora, lora_sess, gpsd_vars, rtc_vars, dsp_vars, nmea>>

\* Values of the frequency spin box (MHz) the user picks from.
FreqChoices == {100, 433}

\* Entries of the sample-rate selector the user picks from: '250 kHz', '2.048 MHz'.
RateChoices == {0, 4}

\* RTLSDRPanel._apply_sdr_settings, lines 330-334: the selector's text in Hz.
SampleRateOf(index) == IF index = 0 THEN 250000 ELSE 2048000

\* RTLSDRPanel.__init__ and the widgets' initial values set by init_ui.
RTLSDRPanel_init ==
    [ sdr               |-> None,
      sdr_active        |-> FALSE,
      capture_thread    |-> None,
      running           |-> FALSE,
      current_freq      |-> 100000000,
      sample_rate       |-> 2048000,
      gain              |-> "auto",
      freq_spin         |-> 100,
      sample_rate_combo |-> 4,
      start_btn         |-> FALSE,              \* start_btn.isEnabled()
      status            |-> "Not Initialized",  \* status_label text (its kind)
      pc                |-> "idle" ]

\* A device slot no RtlSdr() call has used yet.
NoDevice == [ handle |-> "none", center_freq |-> 0, sample_rate |-> 0, gain |-> "none" ]

\* A thread slot no start_capture has used yet.  stop_req tells whether
\* stop_capture has run since the thread was started.
NoThread == [ pc |-> "none", dev |-> None, obj |-> None, exit |-> "none", stop_req |-> FALSE ]

\* The next unused device slot, or None when the bound is reached.
FreshDevice(dev) ==
    IF \E n \in Sessions : dev[n].handle = "none"
    THEN CHOOSE n \in Sessions : dev[n].handle = "none"
                                 /\ \A m \in Sessions : m < n => dev[m].handle # "none"
    ELSE None

\* The next unused thread slot, or None when the bound is reached.
FreshThread(thr) ==
    IF \E k \in Threads : thr[k].pc = "none"
    THEN CHOOSE k \in Threads : thr[k].pc = "none"
                                /\ \A m \in Threads : m < k => thr[m].pc # "none"
    ELSE None

\* RtlSdr.close() on device d (None: nothing to close): the device is released
\* and its tuner settings with it.
CloseDevice(dev, d) ==
    IF d = None THEN dev ELSE [dev EXCEPT ![d] = [NoDevice EXCEPT !.handle = "closed"]]

\* RTLSDRPanel._apply_sdr_settings, lines 325-335, attribute side: current_freq
\* and sample_rate follow the widgets.
apply_sdr_settings_panel(s) ==
    [s EXCEPT !.current_freq = s.freq_spin * 1000000,
              !.sample_rate = SampleRateOf(s.sample_rate_combo)]

\* RTLSDRPanel._apply_sdr_settings, lines 327-341, device side: center_freq,
\* sample_rate and gain are written to the device object d.
apply_sdr_settings_device(dev, d, s) ==
    [dev EXCEPT ![d].center_freq = s.freq_spin * 1000000,
                ![d].sample_rate = SampleRateOf(s.sample_rate_combo),
                ![d].gain = s.gain]

\* RTLSDRPanel.init_sdr.  noimport: pyrtlsdr is missing.  openfail: RtlSdr()
\* raised, self.sdr keeps its value.  queryfail: the device n was opened and
\* stored, then get_tuner_type/get_gains raised.  ok: settings applied, panel
\* active.
init_sdr(n, outcome) ==
    CASE outcome = "noimport" ->
            /\ sdr' = [sdr EXCEPT !.status = "pyrtlsdr not installed"]
            /\ UNCHANGED sdr_dev
      [] outcome = "openfail" ->
            /\ sdr' = [sdr EXCEPT !.status = "Init failed"]
            /\ UNCHANGED sdr_dev
      [] outcome = "queryfail" ->
            /\ n # None
            /\ sdr' = [sdr EXCEPT !.sdr = n, !.status = "Init failed"]
            /\ sdr_dev' = [sdr_dev EXCEPT ![n].handle = "open"]
      [] OTHER ->
            /\ n # None
            /\ sdr' = [apply_sdr_settings_panel(sdr) EXCEPT
                          !.sdr = n, !.sdr_active = TRUE, !.status = "SDR Ready",
                          !.start_btn = TRUE]
            /\ sdr_dev' = apply_sdr_settings_device(
                             [sdr_dev EXCEPT ![n].handle = "open"], n, sdr)

\* Mutant of stop_capture_begin: running is left set.
stop_capture_begin_keeps_running(back) ==
    /\ sdr' = [sdr EXCEPT !.pc = back]
    /\ UNCHANGED <<sdr_dev, sdr_thr>>

\* RTLSDRPanel.stop_capture, line 377: running cleared; the handler then joins
\* the capture thread (when there is one).  back is where the handler goes on
\* after the join: in stop_capture alone, or in deinit_sdr.
stop_capture_begin(back) ==
    /\ sdr' = [sdr EXCEPT !.running = FALSE, !.pc = back]
    /\ sdr_thr' = [k \in Threads |->
                     IF sdr_thr[k].pc \in {"none", "done"} THEN sdr_thr[k]
                     ELSE [sdr_thr[k] EXCEPT !.stop_req = TRUE]]
    /\ UNCHANGED sdr_dev

\* RTLSDRPanel.stop_capture, lines 379-389: join(timeout=2.0) has returned,
\* the thread handle is dropped and the status label reset.
stop_capture_end(s) ==
    [s EXCEPT !.capture_thread = None,
              !.status = IF s.sdr_active THEN "SDR Ready" ELSE s.status,
              !.pc = "idle"]

\* RTLSDRPanel.toggle_capture, stop branch, after the join.
stop_capture_return ==
    /\ SdrFrame
    /\ sdr.pc = "join_stop"
    /\ sdr' = stop_capture_end(sdr)
    /\ UNCHANGED <<sdr_dev, sdr_thr>>

\* RTLSDRPanel.deinit_sdr, lines 300-317 after the join inside stop_capture:
\* the device is closed and dropped, the panel is inactive.
deinit_sdr_end ==
    /\ SdrFrame
    /\ sdr.pc = "join_deinit"
    /\ sdr' = [stop_capture_end(sdr) EXCEPT !.sdr = None, !.sdr_active = FALSE,
                                            !.status = "Not Initialized",
                                            !.start_btn = FALSE]
    /\ sdr_dev' = CloseDevice(sdr_dev, sdr.sdr)
    /\ UNCHANGED sdr_thr

\* RTLSDRPanel.toggle_sdr (init button, or initialize() at startup).
toggle_sdr ==
    /\ SdrFrame
    /\ sdr.pc = "idle"
    /\ IF sdr.sdr_active
       THEN stop_capture_begin("join_deinit")
       ELSE /\ \E outcome \in {"noimport", "openfail", "queryfail", "ok"} :
                  init_sdr(FreshDevice(sdr_dev), outcome)
            /\ UNCHANGED sdr_thr

\* RTLSDRPanel.cleanup
sdr_cleanup ==
    /\ SdrFrame
    /\ sdr.pc = "idle"
    /\ stop_capture_begin("join_deinit")

\* RTLSDRPanel.start_capture: nothing without a device; else running is set
\* and a new capture thread k started (dev: the device self.sdr holds then).
start_capture(k) ==
    IF sdr.sdr = None
    THEN UNCHANGED <<sdr, sdr_dev, sdr_thr>>
    ELSE /\ k # None
         /\ sdr' = [sdr EXCEPT !.running = TRUE, !.capture_thread = k,
                               !.status = "Capturing..."]
         /\ sdr_thr' = [sdr_thr EXCEPT ![k] =
               [pc |-> "check", dev |-> sdr.sdr, obj |-> None, exit |-> "none",
                stop_req |-> FALSE]]
         /\ UNCHANGED sdr_dev

\* RTLSDRPanel.toggle_capture (start button, enabled from a successful
\* init_sdr until deinit_sdr).
toggle_capture ==
    /\ SdrFrame
    /\ sdr.pc = "idle"
    /\ sdr.start_btn
    /\ IF sdr.running THEN stop_capture_begin("join_stop")
       ELSE start_capture(FreshThread(sdr_thr))

\* Mutant of apply_settings: the capture is stopped before the device is
\* written.
apply_settings_stops_capture ==
    /\ SdrFrame
    /\ sdr.pc = "idle"
    /\ IF sdr.sdr_active /\ sdr.sdr # None
       THEN /\ sdr' = [apply_sdr_settings_panel(sdr) EXCEPT !.status = "Tuned", !.running = FALSE]
            /\ sdr_dev' = apply_sdr_settings_device(sdr_dev, sdr.sdr, sdr)
       ELSE /\ sdr' = IF sdr.sdr_active THEN [sdr EXCEPT !.status = "Tuned"] ELSE sdr
            /\ UNCHANGED sdr_dev
    /\ UNCHANGED sdr_thr

\* RTLSDRPanel.apply_settings (apply button): with an active panel the
\* settings are written to the device, by the GUI thread.
apply_settings ==
    /\ SdrFrame
    /\ sdr.pc = "idle"
    /\ IF sdr.sdr_active /\ sdr.sdr # None
       THEN /\ sdr' = [apply_sdr_settings_panel(sdr) EXCEPT !.status = "Tuned"]
            /\ sdr_dev' = apply_sdr_settings_device(sdr_dev, sdr.sdr, sdr)
       ELSE /\ sdr' = IF sdr.sdr_active THEN [sdr EXCEPT !.status = "Tuned"] ELSE sdr
            /\ UNCHANGED sdr_dev
    /\ UNCHANGED sdr_thr

\* The user changes the frequency spin box or the sample-rate selector.
sdr_edit_settings ==
    /\ SdrFrame
    /\ sdr.pc = "idle"
    /\ \/ \E f \in FreqChoices : f # sdr.freq_spin /\ sdr' = [sdr EXCEPT !.freq_spin = f]
       \/ \E i \in RateChoices :
             i # sdr.sample_rate_combo /\ sdr' = [sdr EXCEPT !.sample_rate_combo = i]
    /\ UNCHANGED <<sdr_dev, sdr_thr>>

\* A capture thread ends.
CaptureEnds(thr, k, why) ==
    [thr EXCEPT ![k].pc = "done", ![k].obj = None, ![k].exit = why]

\* A loop test that does not look at the running flag.
capture_check_ignores_running(k) ==
    /\ SdrFrame
    /\ sdr_thr[k].pc = "check"
    /\ sdr_thr' = [sdr_thr EXCEPT ![k].pc = "check2"]
    /\ UNCHANGED <<sdr, sdr_dev>>

\* RTLSDRPanel._capture_loop, line 395, first conjunct: while self.running
capture_check(k) ==
    /\ SdrFrame
    /\ sdr_thr[k].pc = "check"
    /\ sdr_thr' = IF sdr.running THEN [sdr_thr EXCEPT ![k].pc = "check2"]
                  ELSE CaptureEnds(sdr_thr, k, "stop")
    /\ UNCHANGED <<sdr, sdr_dev>>

\* RTLSDRPanel._capture_loop, lines 395-398: ... and self.sdr; then
\* read_samples is called on whatever self.sdr holds now.
capture_enter(k) ==
    /\ SdrFrame
    /\ sdr_thr[k].pc = "check2"
    /\ sdr_thr' = IF sdr.sdr = None THEN CaptureEnds(sdr_thr, k, "stop")
                  ELSE [sdr_thr EXCEPT ![k].pc = "io", ![k].obj = sdr.sdr]
    /\ UNCHANGED <<sdr, sdr_dev>>

\* Mutant of capture_read: an error is never signalled.
capture_read_silent(k) ==
    /\ SdrFrame
    /\ sdr_thr[k].pc = "io"
    /\ \E r \in {"samples", "error"} :
          sdr_thr' = IF r = "samples"
                     THEN [sdr_thr EXCEPT ![k].pc = "check", ![k].obj = None]
                     ELSE CaptureEnds(sdr_thr, k, "error_silent")
    /\ UNCHANGED <<sdr, sdr_dev>>

\* RTLSDRPanel._capture_loop, lines 398-420: read_samples returns a block (the
\* frame is computed and emitted, the loop goes on) or raises (the error is
\* signalled only when running is still set; break).  On a device closed
\* under the thread the read yields either.
capture_read(k) ==
    /\ SdrFrame
    /\ sdr_thr[k].pc = "io"
    /\ \E r \in {"samples", "error"} :
          sdr_thr' = IF r = "samples"
                     THEN [sdr_thr EXCEPT ![k].pc = "check", ![k].obj = None]
                     ELSE CaptureEnds(sdr_thr, k,
                             IF sdr.running THEN "error_reported" ELSE "error_silent")
    /\ UNCHANGED <<sdr, sdr_dev>>

\* RTLSDRPanel.is_active
sdr_is_active == sdr.sdr_active

SDRInit ==
    /\ sdr = RTLSDRPanel_init
    /\ sdr_dev = [n \in Sessions |-> NoDevice]
    /\ sdr_thr = [k \in Threads |-> NoThread]

SDRNext ==
    \/ toggle_sdr
    \/ sdr_cleanup
    \/ deinit_sdr_end
    \/ toggle_capture
    \/ stop_capture_return
    \/ apply_settings
    \/ sdr_edit_settings
    \/ \E k \in Threads : capture_check(k)
    \/ \E k \in Threads : capture_enter(k)
    \/ \E k \in Threads : capture_read(k)

(***************************************************************************)
(* The gpsd data path, src/gui/gps_panel.py lines 232-405: the bytes the   *)
(* daemon sends, the reader's line buffer, the reports the reader hands    *)
(* to _process_gpsd_message, the dicts it emits with data_updated, and the *)
(* attributes the GUI slot _update_ui_from_data stores.                    *)
(*                                                                         *)
(* A byte below 0x80 and the character it decodes to are written as the    *)
(* same one-character string; the bytes 0xC3 and 0xA9 are "C3" and "A9",   *)
(* the characters U+00E9 and U+FFFD are "U+00E9" and "U+FFFD".             *)
(***************************************************************************)

\* First bytes and continuation bytes of the two-byte UTF-8 sequences of the
\* alphabet (0xC3 0xA9 encodes U+00E9).
LeadBytes == {"C3"}
ContBytes == {"A9"}

\* bytes.decode('utf-8', errors='replace') of one recv() result: a complete
\* two-byte sequence is one character, a lead byte without its continuation
\* byte (also at the end of the input) and a stray continuation byte are
\* each replaced by U+FFFD.
RECURSIVE decode(_)
decode(b) ==
    IF b = <<>> THEN <<>>
    ELSE IF Head(b) \in LeadBytes
    THEN IF Len(b) >= 2 /\ b[2] \in ContBytes
         THEN <<"U+00E9">> \o decode(SubSeq(b, 3, Len(b)))
         ELSE <<"U+FFFD">> \o decode(Tail(b))
    ELSE IF Head(b) \in ContBytes
    THEN <<"U+FFFD">> \o decode(Tail(b))
    ELSE <<Head(b)>> \o decode(Tail(b))

\* Characters str.strip() removes.
Whitespace == {" ", "\t", "\r", "\n"}

\* str.strip()
RECURSIVE strip(_)
strip(s) ==
    IF s = <<>> THEN <<>>
    ELSE IF Head(s) \in Whitespace THEN strip(Tail(s))
    ELSE IF s[Len(s)] \in Whitespace THEN strip(SubSeq(s, 1, Len(s) - 1))
    ELSE s

\* Python values json.loads returns.  Every value has the same shape: t is
\* the type, n the number in hundredths (or the truth value of a bool), s
\* the characters of a str, l the elements of a list, d the items of a dict.
EmptyDict == [k \in {} |-> None]
Num(n) == [t |-> "num", n |-> n, s |-> <<>>, l |-> <<>>, d |-> EmptyDict]
Str(s) == [t |-> "str", n |-> 0, s |-> s, l |-> <<>>, d |-> EmptyDict]
Null == [t |-> "null", n |-> 0, s |-> <<>>, l |-> <<>>, d |-> EmptyDict]
List(l) == [t |-> "list", n |-> 0, s |-> <<>>, l |-> l, d |-> EmptyDict]
Dict(d) == [t |-> "dict", n |-> 0, s |-> <<>>, l |-> <<>>, d |-> d]

\* The outcome of json.loads raising json.JSONDecodeError.
JSONDecodeError == [t |-> "JSONDecodeError", n |-> 0, s |-> <<>>, l |-> <<>>, d |-> EmptyDict]

\* bool(v): Python truthiness.
Truthy(v) ==
    CASE v.t = "num" -> v.n # 0
      [] v.t = "str" -> v.s # <<>>
      [] v.t = "list" -> v.l # <<>>
      [] v.t = "dict" -> DOMAIN v.d # {}
      [] OTHER -> FALSE

\* dict.get(key, default)
Get(msg, key, default) == IF key \in DOMAIN msg.d THEN msg.d[key] ELSE default

\* JSON texts of the gpsd protocol: {"class":"<name>"<members>}
TPVName == <<"T", "P", "V">>
SKYName == <<"S", "K", "Y">>
VERSIONName == <<"V", "E", "R", "S", "I", "O", "N">>
LatKey == <<"l", "a", "t">>
SpeedKey == <<"s", "p", "e", "e", "d">>
TimeKey == <<"t", "i", "m", "e">>
SatellitesKey == <<"s", "a", "t", "e", "l", "l", "i", "t", "e", "s">>
NullText == <<"n", "u", "l", "l">>
Quoted(s) == <<"\"">> \o s \o <<"\"">>
Member(key, text) == <<",">> \o Quoted(key) \o <<":">> \o text
ReportOpen(name) == <<"{">> \o Quoted(<<"c", "l", "a", "s", "s">>) \o <<":">> \o Quoted(name)
Report(name, members) == ReportOpen(name) \o members \o <<"}">>

\* Number texts of the reports and their values in hundredths.
NumberTexts == {<<"1", ".", "5">>, <<"2", ".", "5">>}
NumberValue(text) == IF text = <<"1", ".", "5">> THEN 150 ELSE 250

\* Bodies of JSON string literals json.loads takes as they are: no quote, no
\* backslash, no control character.
IsStringBody(s) == \A i \in 1..Len(s) : s[i] \notin {"\"", "\\", "\t", "\r", "\n"}

\* A text that starts with prefix and ends with suffix, and what is between.
Encloses(text, prefix, suffix) ==
    /\ Len(text) >= Len(prefix) + Len(suffix)
    /\ SubSeq(text, 1, Len(prefix)) = prefix
    /\ SubSeq(text, Len(text) - Len(suffix) + 1, Len(text)) = suffix
Between(text, prefix, suffix) == SubSeq(text, Len(prefix) + 1, Len(text) - Len(suffix))

\* {"class":"TPV","time":"  and  "}
TimeOpen == ReportOpen(TPVName) \o <<",">> \o Quoted(TimeKey) \o <<":", "\"">>
TimeClose == <<"\"", "}">>

\* json.loads(line) on the texts of the modelled streams: a report with no
\* member, a TPV with a number or null for lat, a number for speed or any
\* string for time, a SKY with null for satellites, and the array [1];
\* every other text of the streams is not JSON.
json_loads(text) ==
    IF text = Report(TPVName, <<>>) THEN Dict([class |-> Str(TPVName)])
    ELSE IF text = Report(SKYName, <<>>) THEN Dict([class |-> Str(SKYName)])
    ELSE IF text = Report(VERSIONName, <<>>) THEN Dict([class |-> Str(VERSIONName)])
    ELSE IF \E v \in NumberTexts : text = Report(TPVName, Member(LatKey, v))
    THEN LET v == CHOOSE v \in NumberTexts : text = Report(TPVName, Member(LatKey, v))
         IN  Dict([class |-> Str(TPVName), lat |-> Num(NumberValue(v))])
    ELSE IF text = Report(TPVName, Member(LatKey, NullText))
    THEN Dict([class |-> Str(TPVName), lat |-> Null])
    ELSE IF \E v \in NumberTexts : text = Report(TPVName, Member(SpeedKey, v))
    THEN LET v == CHOOSE v \in NumberTexts : text = Report(TPVName, Member(SpeedKey, v))
         IN  Dict([class |-> Str(TPVName), speed |-> Num(NumberValue(v))])
    ELSE IF Encloses(text, TimeOpen, TimeClose) /\ IsStringBody(Between(text, TimeOpen, TimeClose))
    THEN Dict([class |-> Str(TPVName), time |-> Str(Between(text, TimeOpen, TimeClose))])
    ELSE IF text = Report(SKYName, Member(SatellitesKey, NullText))
    THEN Dict([class |-> Str(SKYName), satellites |-> Null])
    ELSE IF text = <<"[", "1", "]">> THEN List(<<Num(100)>>)
    ELSE JSONDecodeError

\* The exception a call raised, or none.
NoRaise == "none"

\* GPSPanel._process_gpsd_message(msg): the dicts it emits with data_updated
\* and the exception it raises, if any.  msg.get raises on a msg that is not
\* a dict; speed * 3.6 raises on a truthy speed that is not a number; the
\* :.6f formats of the log line, after the emit, raise on a latitude or
\* longitude that is not a number; the sum over satellites raises on a
\* value that is not iterable or an element that has no get.
\* The same expression without the factor: metres per second passed through.
speed_ms(speed) == IF Truthy(speed) THEN speed ELSE Num(0)

\* GPSPanel._process_gpsd_message, line 298:
\* msg.get('speed', 0) * 3.6 if msg.get('speed') else 0
speed_kmh(speed) == IF Truthy(speed) THEN Num((speed.n * 36) \div 10) ELSE Num(0)

process_gpsd_message(msg) ==
    IF msg.t # "dict" THEN [emit |-> <<>>, raised |-> "AttributeError"]
    ELSE LET msg_class == Get(msg, "class", Str(<<>>)) IN
    IF msg_class = Str(TPVName)
    THEN LET speed == Get(msg, "speed", Null)
             data == [ latitude  |-> Get(msg, "lat", Num(0)),
                       longitude |-> Get(msg, "lon", Num(0)),
                       altitude  |-> Get(msg, "altMSL", Get(msg, "alt", Num(0))),
                       speed     |-> speed_kmh(speed),
                       track     |-> Get(msg, "track", Num(0)),
                       fix_mode  |-> Get(msg, "mode", Num(0)),
                       time_utc  |-> Get(msg, "time", Str(<<>>)),
                       hdop      |-> Get(msg, "hdop", Num(0)) ]
         IN  IF Truthy(speed) /\ speed.t # "num"
             THEN [emit |-> <<>>, raised |-> "TypeError"]
             ELSE [emit |-> <<data>>,
                   raised |-> IF data.latitude.t = "num" /\ data.longitude.t = "num"
                              THEN NoRaise ELSE "TypeError"]
    ELSE IF msg_class = Str(SKYName)
    THEN LET satellites == Get(msg, "satellites", List(<<>>))
             used == Cardinality({i \in 1..Len(satellites.l) :
                                    Truthy(Get(satellites.l[i], "used", Null))})
         IN  IF satellites.t \notin {"list", "dict", "str"}
             THEN [emit |-> <<>>, raised |-> "TypeError"]
             ELSE IF \/ satellites.t = "list" /\ \E i \in 1..Len(satellites.l) : satellites.l[i].t # "dict"
                     \/ satellites.t = "dict" /\ DOMAIN satellites.d # {}
                     \/ satellites.t = "str" /\ satellites.s # <<>>
             THEN [emit |-> <<>>, raised |-> "AttributeError"]
             ELSE [emit |-> << [ satellites      |-> Num(100 * Len(satellites.l)),
                                 satellites_used |-> Num(100 * used),
                                 satellite_list  |-> satellites ] >>,
                   raised |-> NoRaise]
    ELSE [emit |-> <<>>, raised |-> NoRaise]

\* Index of the first occurrence of c in s, 0 when there is none.
RECURSIVE find(_, _, _)
find(s, c, i) == IF i > Len(s) THEN 0 ELSE IF s[i] = c THEN i ELSE find(s, c, i + 1)

\* The inner loop of GPSPanel._gpsd_reader (lines 247-256) on the locals
\* st = [buffer, dispatched, emitted, raised]: while the buffer holds a
\* newline, split off the text before it, strip it, parse it if it is not
\* empty, drop it on JSONDecodeError, otherwise call _process_gpsd_message.
\* Any other exception leaves the loop with the line already split off.
\* An emitted dict is kept together with the report it was built from.
RECURSIVE process_lines(_)
process_lines(st) ==
    LET i == find(st.buffer, "\n", 1)
        line == strip(SubSeq(st.buffer, 1, i - 1))
        rest == SubSeq(st.buffer, i + 1, Len(st.buffer))
        msg == json_loads(line)
        r == process_gpsd_message(msg)
    IN  IF st.raised # NoRaise \/ i = 0 THEN st
        ELSE IF line = <<>> \/ msg = JSONDecodeError
        THEN process_lines([st EXCEPT !.buffer = rest])
        ELSE process_lines([ buffer     |-> rest,
                             dispatched |-> Append(st.dispatched, msg),
                             emitted    |-> st.emitted \o
                                  [j \in 1..Len(r.emit) |-> [data |-> r.emit[j], report |-> msg]],
                             raised     |-> r.raised ])

\* GPS data attributes of a new GPSPanel (lines 41-51); queue holds the
\* data_updated emissions not yet delivered to the slot (the signal is
\* emitted from the reader thread, so deliveries are queued in order), slot
\* is "raised" once the slot raised and "aborted" when that ended the process.
GPSData_init ==
    [ latitude        |-> Num(0),
      longitude       |-> Num(0),
      altitude        |-> Num(0),
      speed           |-> Num(0),
      track           |-> Num(0),
      satellites      |-> Num(0),
      satellites_used |-> Num(0),
      fix_mode        |-> Num(0),
      hdop            |-> Num(0),
      time_utc        |-> Str(<<>>),
      satellite_list  |-> List(<<>>),
      queue           |-> <<>>,      \* emissions of data_updated not yet delivered
      slot            |-> "ok",
      emitted         |-> <<>>,      \* every emission of the session, in order
      delivered       |-> <<>> ]     \* every emission the slot was called with

\* The reader's locals before a session: nothing buffered, nothing dispatched.
GpsdReader_init == [buffer |-> <<>>, dispatched |-> <<>>, raised |-> NoRaise]

\* The keys _update_ui_from_data tests, in its order.
FieldOrder ==
    << "latitude", "longitude", "altitude", "speed", "track", "time_utc", "hdop",
       "fix_mode", "satellites", "satellites_used", "satellite_list" >>

\* Whether the statements that follow the assignment of field f raise on the
\* value v: the float formats of the labels, 'T' in self.time_utc, the
\* comparison self.fix_mode >= 2, sat.get in _update_satellite_table.
FormatRaises(f, v) ==
    CASE f = "time_utc" -> v.t = "num" /\ Truthy(v)
      [] f \in {"satellites", "satellites_used"} -> FALSE
      [] f = "satellite_list" ->
            \/ v.t \in {"null", "num"}
            \/ \E i \in 1..Len(v.l) : v.l[i].t # "dict"
      [] OTHER -> v.t # "num"

\* GPSPanel._update_ui_from_data(data) from the i-th key on: each key that is
\* in data is stored, then displayed; an exception ends the slot there.
RECURSIVE update_fields(_, _, _)
update_fields(fix, data, i) ==
    IF i > Len(FieldOrder) THEN [fix |-> fix, raised |-> FALSE]
    ELSE LET f == FieldOrder[i] IN
         IF f \notin DOMAIN data THEN update_fields(fix, data, i + 1)
         ELSE IF FormatRaises(f, data[f])
         THEN [fix |-> [fix EXCEPT ![f] = data[f]], raised |-> TRUE]
         ELSE update_fields([fix EXCEPT ![f] = data[f]], data, i + 1)

\* Lines gpsd sends in one session, at most.
MaxLines == 2

\* Largest result of one recv (line 239).
RecvSize == 4096

\* The lines of the modelled streams, as bytes.
WireLines ==
    { Report(TPVName, <<>>),
      Report(TPVName, Member(LatKey, <<"1", ".", "5">>)),
      Report(TPVName, Member(LatKey, NullText)),
      Report(TPVName, Member(SpeedKey, <<"2", ".", "5">>)),
      Report(TPVName, Member(TimeKey, Quoted(<<"C3", "A9">>))),
      Report(SKYName, <<>>),
      Report(SKYName, Member(SatellitesKey, NullText)),
      Report(VERSIONName, <<>>),
      <<"[", "1", "]">>,
      <<"{", "x">>,
      <<" ">> }

\* The stream of the lines ls, each ended by CR LF as gpsd ends them.
RECURSIVE Stream(_)
Stream(ls) == IF ls = <<>> THEN <<>> ELSE Head(ls) \o <<"\r", "\n">> \o Stream(Tail(ls))

\* The GPS panel connected to gpsd by session 1, its reader blocked in recv.
GpsdConnected ==
    /\ gps = [GPSPanel_init EXCEPT !.gpsd_socket = 1, !.running = TRUE, !.gpsd_thread = 1,
                                   !.status = "Connected", !.log_btn = TRUE]
    /\ gps_sess = [n \in Sessions |->
          IF n = 1
          THEN [kind |-> "gpsd", handle |-> "open", pc |-> "io", obj |-> 1, exit |-> "none"]
          ELSE NoSession]

\* A step of the gpsd data path: the panel stays connected.
GpsdFrame == UNCHANGED <<tab, gps, lora, lora_sess, sdr, sdr_dev, sdr_thr, rtc_vars, dsp_vars, nmea>>

\* GPSPanel._gpsd_reader, lines 236-256, one iteration in which recv returns
\* the next k bytes of the stream: decode them, append them to the buffer,
\* process the complete lines.  An exception other than JSONDecodeError is
\* caught at line 260 and ends the loop.
gpsd_reader_data(k) ==
    /\ GpsdFrame
    /\ gps_sess[1].pc = "io" /\ gps_fix.slot # "aborted"
    /\ k <= RecvSize /\ gpsd_wire.pos + k <= Len(gpsd_wire.stream)
    /\ LET data == decode(SubSeq(gpsd_wire.stream, gpsd_wire.pos + 1, gpsd_wire.pos + k))
           st == process_lines([ buffer     |-> gpsd_rd.buffer \o data,
                                 dispatched |-> gpsd_rd.dispatched,
                                 emitted    |-> <<>>,
                                 raised     |-> NoRaise ])
       IN  /\ gpsd_wire' = [gpsd_wire EXCEPT !.pos = @ + k]
           /\ gpsd_rd' = [buffer |-> st.buffer, dispatched |-> st.dispatched, raised |-> st.raised]
           /\ gps_fix' = [gps_fix EXCEPT !.queue = @ \o st.emitted,
                                          !.emitted = @ \o st.emitted]
           /\ gps_sess' = IF st.raised = NoRaise THEN gps_sess
                          ELSE ThreadEnds(gps_sess, 1, "done", "procerror")

\* GPSPanel._gpsd_reader, lines 260-263: recv raised a socket error.
gpsd_reader_ioerror ==
    /\ GpsdFrame
    /\ gps_sess[1].pc = "io" /\ gps_fix.slot # "aborted"
    /\ gps_sess' = ThreadEnds(gps_sess, 1, "done", "ioerror")
    /\ UNCHANGED gpsd_vars

\* A slot that is handed the newest pending emission instead of the oldest.
update_ui_from_data_newest ==
    /\ GpsdFrame
    /\ gps_fix.queue # <<>> /\ gps_fix.slot # "aborted"
    /\ LET last == gps_fix.queue[Len(gps_fix.queue)]
           r == update_fields(gps_fix, last.data, 1)
       IN  \E outcome \in IF r.raised THEN {"raised", "aborted"} ELSE {gps_fix.slot} :
              gps_fix' = [r.fix EXCEPT !.queue = SubSeq(@, 1, Len(@) - 1), !.slot = outcome,
                                       !.delivered = Append(@, last)]
    /\ UNCHANGED <<gps_sess, gpsd_wire, gpsd_rd>>

\* gpsd closes the TCP connection (it exits, or drops the client).
gpsd_closes ==
    /\ GpsdFrame
    /\ ~gpsd_wire.closed
    /\ gpsd_wire' = [gpsd_wire EXCEPT !.closed = TRUE]
    /\ UNCHANGED <<gps_sess, gpsd_rd, gps_fix>>

\* GPSPanel._gpsd_reader, lines 239-242: recv on the connection gpsd has
\* closed, everything sent before read already: it returns b'' at once, and
\* `if not data: continue` goes back to the loop test.
gpsd_reader_eof ==
    /\ GpsdFrame
    /\ gps_sess[1].pc = "io" /\ gps_fix.slot # "aborted"
    /\ gpsd_wire.closed /\ gpsd_wire.pos = Len(gpsd_wire.stream)
    /\ gps_sess' = [gps_sess EXCEPT ![1].pc = "check", ![1].obj = None]
    /\ UNCHANGED gpsd_vars

\* GPSPanel._update_ui_from_data, the slot of data_updated, run by the GUI
\* thread for the oldest pending emission.  When the slot raises, PyQt either
\* prints the traceback and goes on or aborts the process.
update_ui_from_data ==
    /\ GpsdFrame
    /\ gps_fix.queue # <<>> /\ gps_fix.slot # "aborted"
    /\ LET r == update_fields(gps_fix, Head(gps_fix.queue).data, 1)
       IN  \E outcome \in IF r.raised THEN {"raised", "aborted"} ELSE {gps_fix.slot} :
              gps_fix' = [r.fix EXCEPT !.queue = Tail(@), !.slot = outcome,
                                       !.delivered = Append(@, Head(gps_fix.queue))]
    /\ UNCHANGED <<gps_sess, gpsd_wire, gpsd_rd>>

\* No serial receiver attached: no line to read.
NmeaIdle == [lines |-> <<>>, pos |-> 0]

\* The data path with no session: nothing on the wire.
GpsdIdle ==
    /\ gpsd_wire = [stream |-> <<>>, pos |-> 0, closed |-> FALSE]
    /\ gpsd_rd = GpsdReader_init
    /\ gps_fix = GPSData_init
    /\ nmea = NmeaIdle

(***************************************************************************)
(* Serial NMEA data path, src/gui/gps_panel.py lines 265-353: the reader   *)
(* thread reads one line at a time, pynmea2 parses it and _process_nmea    *)
(* emits data_updated for GGA and RMC sentences.  A sentence is the record *)
(* of its comma-separated field texts; numbers are in hundredths.          *)
(***************************************************************************)

\* float(text) and int(text) of the field texts the receiver sends.
NmeaValue ==
    ("0" :> 0) @@ ("1" :> 100) @@ ("2" :> 200) @@ ("00" :> 0) @@ ("08" :> 800) @@
    ("0.0" :> 0) @@ ("10.0" :> 1000) @@ ("84.4" :> 8440) @@ ("0.9" :> 90) @@
    ("545.4" :> 54540)

\* pynmea2.nmea_utils.dm_to_sd: degrees and minutes (ddmm.mmm) to degrees;
\* the empty text gives 0.
dm_to_sd ==
    ("" :> 0) @@ ("0000.000" :> 0) @@ ("4807.038" :> 4812) @@ ("01131.000" :> 1152)

\* pynmea2 LatLonFix.latitude: signed by lat_dir, 0.0 without a direction.
latitude(msg) ==
    CASE msg.lat_dir = "N" -> dm_to_sd[msg.lat]
      [] msg.lat_dir = "S" -> -dm_to_sd[msg.lat]
      [] OTHER -> 0

\* pynmea2 LatLonFix.longitude.
longitude(msg) ==
    CASE msg.lon_dir = "E" -> dm_to_sd[msg.lon]
      [] msg.lon_dir = "W" -> -dm_to_sd[msg.lon]
      [] OTHER -> 0

\* pynmea2 NMEASentence.__getattr__ for a field declared with a converter
\* (gps_qual: int, altitude, spd_over_grnd, true_course: float): None for
\* the empty text, the number when the conversion works, else the text.
TypedField(text) ==
    IF text = "" THEN Null
    ELSE IF text \in DOMAIN NmeaValue THEN Num(NmeaValue[text])
    ELSE Str(<<text>>)

\* float(x) if x else 0.0 on a field value x: [v, raised].
FloatOrZero(x) ==
    IF ~Truthy(x) THEN [v |-> Num(0), raised |-> FALSE]
    ELSE IF x.t = "num" THEN [v |-> x, raised |-> FALSE]
    ELSE [v |-> Num(0), raised |-> TRUE]

\* The same on a field without a converter, whose value is its text.
TextOrZero(text) ==
    IF text = "" THEN [v |-> Num(0), raised |-> FALSE]
    ELSE IF text \in DOMAIN NmeaValue THEN [v |-> Num(NmeaValue[text]), raised |-> FALSE]
    ELSE [v |-> Num(0), raised |-> TRUE]

\* GPSPanel._process_nmea, line 346: float(msg.spd_over_grnd) * 1.852
rmc_speed_kmh(spd) == Num((spd.n * 1852) \div 1000)

\* GPSPanel._process_nmea(msg), lines 325-353: [emit, raised]; a ValueError of
\* float() or int() leaves the method before the emit.  at is the number of
\* the line the sentence came from.
process_nmea(msg, at) ==
    IF msg.sentence_type = "GGA"
    THEN IF latitude(msg) # 0 /\ longitude(msg) # 0
         THEN LET altitude == FloatOrZero(TypedField(msg.altitude))
                  num_sats == TextOrZero(msg.num_sats)
                  hdop == TextOrZero(msg.horizontal_dil)
                  qual == TypedField(msg.gps_qual)
                  gps_qual == IF Truthy(qual) THEN qual ELSE Num(0)
                  data == [ latitude        |-> Num(latitude(msg)),
                            longitude       |-> Num(longitude(msg)),
                            altitude        |-> altitude.v,
                            satellites_used |-> num_sats.v,
                            hdop            |-> hdop.v,
                            fix_mode        |-> IF gps_qual.n > 0 THEN Num(300) ELSE Num(100) ]
              IN  IF altitude.raised \/ num_sats.raised \/ hdop.raised \/ gps_qual.t # "num"
                  THEN [emit |-> <<>>, raised |-> "ValueError"]
                  ELSE [emit |-> <<[data |-> data, report |-> [at |-> at, msg |-> msg]]>>,
                        raised |-> NoRaise]
         ELSE [emit |-> <<>>, raised |-> NoRaise]
    ELSE IF msg.sentence_type = "RMC"
    THEN LET spd == TypedField(msg.spd_over_grnd)
             track == FloatOrZero(TypedField(msg.true_course))
         IN  IF Truthy(spd)
             THEN IF spd.t # "num" \/ track.raised
                  THEN [emit |-> <<>>, raised |-> "ValueError"]
                  ELSE [emit |-> <<[data |-> [speed |-> rmc_speed_kmh(spd), track |-> track.v],
                                    report |-> [at |-> at, msg |-> msg]]>>,
                        raised |-> NoRaise]
             ELSE [emit |-> <<>>, raised |-> NoRaise]
    ELSE [emit |-> <<>>, raised |-> NoRaise]

\* A GGA sentence: position texts, quality, satellites, HDOP and altitude.
GGA(pos, gps_qual) ==
    [ sentence_type |-> "GGA", lat |-> pos.lat, lat_dir |-> pos.lat_dir,
      lon |-> pos.lon, lon_dir |-> pos.lon_dir, gps_qual |-> gps_qual,
      num_sats |-> pos.num_sats, horizontal_dil |-> pos.horizontal_dil,
      altitude |-> pos.altitude ]

\* An RMC sentence: speed over ground in knots and true course.
RMC(spd_over_grnd, true_course) ==
    [ sentence_type |-> "RMC", spd_over_grnd |-> spd_over_grnd, true_course |-> true_course ]

\* What a receiver reports of its position: a fix north of the equator, no
\* position at all (every field empty), and a fix on the equator.
GgaPositions ==
    { [ lat |-> "4807.038", lat_dir |-> "N", lon |-> "01131.000", lon_dir |-> "E",
        num_sats |-> "08", horizontal_dil |-> "0.9", altitude |-> "545.4" ],
      [ lat |-> "", lat_dir |-> "", lon |-> "", lon_dir |-> "",
        num_sats |-> "00", horizontal_dil |-> "", altitude |-> "" ],
      [ lat |-> "0000.000", lat_dir |-> "N", lon |-> "01131.000", lon_dir |-> "E",
        num_sats |-> "08", horizontal_dil |-> "0.9", altitude |-> "0.0" ] }

\* The lines a receiver sends: text that starts with '$' or not, with a
\* sentence pynmea2 accepts or not (checksum), and the sentence.
NmeaLines ==
    { [dollar |-> TRUE, valid |-> TRUE, sentence |-> GGA(p, q)] :
          p \in GgaPositions, q \in {"", "0", "1", "2"} }
    \cup { [dollar |-> TRUE, valid |-> TRUE, sentence |-> RMC(k, c)] :
          k \in {"", "0.0", "10.0"}, c \in {"", "84.4"} }
    \cup { [dollar |-> TRUE, valid |-> TRUE, sentence |-> [sentence_type |-> "GSV"]],
           [dollar |-> TRUE, valid |-> FALSE, sentence |-> [sentence_type |-> "GGA"]],
           [dollar |-> FALSE, valid |-> FALSE, sentence |-> [sentence_type |-> ""]] }

\* A step of the serial data path: the panel stays connected.
NmeaFrame ==
    UNCHANGED <<tab, gps, lora, lora_sess, sdr, sdr_dev, sdr_thr, gpsd_wire, gpsd_rd,
                rtc_vars, dsp_vars>>

\* GPSPanel._serial_reader, lines 275-287, with the line that was read:
\* readline returns the next line of the receiver, or nothing at the timeout,
\* or raises (break).  A line that starts with '$' is parsed; ParseError is
\* passed over; the sentence goes to _process_nmea, and any exception it
\* raises ends the loop.
serial_reader_line(n) ==
    /\ NmeaFrame
    /\ gps_sess[n].kind = "serial" /\ gps_sess[n].pc = "io"
    /\ gps_fix.slot # "aborted"
    /\ \E r \in {"line", "timeout", "ioerror"} :
          /\ r = "line" => nmea.pos < Len(nmea.lines)
          /\ r = "timeout" => nmea.pos = Len(nmea.lines)
          /\ LET line == nmea.lines[nmea.pos + 1]
                 p == IF r = "line" /\ line.dollar /\ line.valid
                      THEN process_nmea(line.sentence, nmea.pos + 1)
                      ELSE [emit |-> <<>>, raised |-> NoRaise]
             IN  /\ nmea' = IF r = "line" THEN [nmea EXCEPT !.pos = @ + 1] ELSE nmea
                 /\ gps_fix' = [gps_fix EXCEPT !.queue = @ \o p.emit,
                                               !.emitted = @ \o p.emit]
                 /\ gps_sess' =
                       IF r = "ioerror" THEN ThreadEnds(gps_sess, n, "done", "ioerror")
                       ELSE IF p.raised # NoRaise
                       THEN ThreadEnds(gps_sess, n, "done", "procerror")
                       ELSE [gps_sess EXCEPT ![n].pc = "check", ![n].obj = None]

(***************************************************************************)
(* RTC panel, src/gui/rtc_panel.py: the BCD helpers, the register decode   *)
(* and encode of the two I2C chips (chip A: PCF85063A, chip B: DS3231) and *)
(* the handlers that use them.  All of it runs on the GUI thread.          *)
(***************************************************************************)

\* a & b and a | b on non-negative integers.
RECURSIVE BitAnd(_, _)
BitAnd(a, b) ==
    IF a = 0 \/ b = 0 THEN 0
    ELSE (a % 2) * (b % 2) + 2 * BitAnd(a \div 2, b \div 2)
RECURSIVE BitOr(_, _)
BitOr(a, b) ==
    IF a = 0 THEN b
    ELSE IF b = 0 THEN a
    ELSE (IF a % 2 = 1 \/ b % 2 = 1 THEN 1 ELSE 0) + 2 * BitOr(a \div 2, b \div 2)

\* bcd_to_dec(bcd): ((bcd >> 4) * 10) + (bcd & 0x0F)
bcd_to_dec(byte) == ((byte \div 16) * 10) + BitAnd(byte, 15)

\* Mutant of dec_to_bcd: the tens digit is shifted by three bits only.
dec_to_bcd_shift3(dec) == BitOr((dec \div 10) * 8, dec % 10)

\* dec_to_bcd(dec): ((dec // 10) << 4) | (dec % 10)
dec_to_bcd(dec) == BitOr((dec \div 10) * 16, dec % 10)

\* The century the chips' two-digit year register is offset by (line 342).
FirstYear == 2000
LastYear == FirstYear + 99

\* calendar.weekday(year, month, day): 0 = Monday .. 6 = Sunday, from the
\* proleptic Gregorian ordinal of the date as datetime.date computes it.
IsLeap(y) == y % 4 = 0 /\ (y % 100 # 0 \/ y % 400 = 0)
DaysInMonth(y, m) ==
    IF m = 2 THEN (IF IsLeap(y) THEN 29 ELSE 28)
    ELSE IF m \in {4, 6, 9, 11} THEN 30 ELSE 31
RECURSIVE DaysBeforeMonth(_, _)
DaysBeforeMonth(y, m) == IF m = 1 THEN 0 ELSE DaysBeforeMonth(y, m - 1) + DaysInMonth(y, m - 1)
DaysBeforeYear(y) == (y - 1) * 365 + (y - 1) \div 4 - (y - 1) \div 100 + (y - 1) \div 400
Ordinal(date) == DaysBeforeYear(date.year) + DaysBeforeMonth(date.year, date.month) + date.day
calendar_weekday(date) == (Ordinal(date) + 6) % 7

\* weekday_names of _read_pcf85063a and of _read_ds3231.
WeekdayNamesA ==
    <<"Sunday", "Monday", "Tuesday", "Wednesday", "Thursday", "Friday", "Saturday">>
WeekdayNamesB ==
    <<"Unknown", "Sunday", "Monday", "Tuesday", "Wednesday", "Thursday", "Friday", "Saturday">>

\* Mutant of read_pcf85063a: the seconds register is decoded with its
\* oscillator-stop bit.
read_pcf85063a_unmasked(data) ==
    LET weekday == BitAnd(data[5], 7) IN
    [ seconds      |-> bcd_to_dec(data[1]),
      minutes      |-> bcd_to_dec(BitAnd(data[2], 127)),
      hours        |-> bcd_to_dec(BitAnd(data[3], 63)),
      days         |-> bcd_to_dec(BitAnd(data[4], 63)),
      weekday      |-> weekday,
      months       |-> bcd_to_dec(BitAnd(data[6], 31)),
      years        |-> bcd_to_dec(data[7]) + FirstYear,
      weekday_name |-> IF weekday < 7 THEN WeekdayNamesA[weekday + 1] ELSE "Unknown" ]

\* Mutant of read_ds3231: day and weekday taken at the offsets of chip A.
read_ds3231_layout_a(data) ==
    LET weekday == data[5] IN
    [ seconds      |-> bcd_to_dec(BitAnd(data[1], 127)),
      minutes      |-> bcd_to_dec(data[2]),
      hours        |-> bcd_to_dec(BitAnd(data[3], 63)),
      days         |-> bcd_to_dec(data[4]),
      weekday      |-> weekday,
      months       |-> bcd_to_dec(BitAnd(data[6], 31)),
      years        |-> bcd_to_dec(data[7]) + FirstYear,
      weekday_name |-> IF 1 <= weekday /\ weekday <= 7
                       THEN WeekdayNamesB[weekday + 1] ELSE "Unknown" ]

\* RTCPanel._read_pcf85063a, lines 342-354: the reading shown for the 7-byte
\* block data (data[0] is data[1] here).
read_pcf85063a(data) ==
    LET weekday == BitAnd(data[5], 7) IN
    [ seconds      |-> bcd_to_dec(BitAnd(data[1], 127)),
      minutes      |-> bcd_to_dec(BitAnd(data[2], 127)),
      hours        |-> bcd_to_dec(BitAnd(data[3], 63)),
      days         |-> bcd_to_dec(BitAnd(data[4], 63)),
      weekday      |-> weekday,
      months       |-> bcd_to_dec(BitAnd(data[6], 31)),
      years        |-> bcd_to_dec(data[7]) + FirstYear,
      weekday_name |-> IF weekday < 7 THEN WeekdayNamesA[weekday + 1] ELSE "Unknown" ]

\* RTCPanel._read_ds3231, lines 364-377.
read_ds3231(data) ==
    LET weekday == data[4] IN
    [ seconds      |-> bcd_to_dec(BitAnd(data[1], 127)),
      minutes      |-> bcd_to_dec(data[2]),
      hours        |-> bcd_to_dec(BitAnd(data[3], 63)),
      days         |-> bcd_to_dec(data[5]),
      weekday      |-> weekday,
      months       |-> bcd_to_dec(BitAnd(data[6], 31)),
      years        |-> bcd_to_dec(data[7]) + FirstYear,
      weekday_name |-> IF 1 <= weekday /\ weekday <= 7
                       THEN WeekdayNamesB[weekday + 1] ELSE "Unknown" ]

\* The block of chip A with the weekday as calendar.weekday counts it
\* (0 = Monday), not converted.
set_pcf85063a_data_monday0(date, time) ==
    << dec_to_bcd(time.second),
       dec_to_bcd(time.minute),
       dec_to_bcd(time.hour),
       dec_to_bcd(date.day),
       calendar_weekday(date),
       dec_to_bcd(date.month),
       dec_to_bcd(date.year - FirstYear) >>

\* RTCPanel._set_pcf85063a, lines 420-434: the block written for a date and
\* a time of day; weekday 0 = Sunday.
set_pcf85063a_data(date, time) ==
    << dec_to_bcd(time.second),
       dec_to_bcd(time.minute),
       dec_to_bcd(time.hour),
       dec_to_bcd(date.day),
       (calendar_weekday(date) + 1) % 7,
       dec_to_bcd(date.month),
       dec_to_bcd(date.year - FirstYear) >>

\* RTCPanel._set_ds3231, lines 448-460.
set_ds3231_data(date, time) ==
    << dec_to_bcd(time.second),
       dec_to_bcd(time.minute),
       dec_to_bcd(time.hour),
       calendar_weekday(date) + 1,
       dec_to_bcd(date.day),
       dec_to_bcd(date.month),
       dec_to_bcd(date.year - FirstYear) >>

\* Times RTCPanel.set_rtc_time may be called in one behaviour.
MaxSets == 1

\* Dates and times of day the user sets: one date for each day of the week,
\* among them the ends of a February and of a year and of the century.
SetDates ==
    {[year |-> 2024, month |-> 2, day |-> d] : d \in {28, 29}}
        \cup {[year |-> 2024, month |-> 3, day |-> 1]}
        \cup {[year |-> 2025, month |-> 11, day |-> d] : d \in {2, 3, 4}}
        \cup {[year |-> 2000, month |-> 1, day |-> 1], [year |-> 2099, month |-> 12, day |-> 31]}
SetTimes == {[hour |-> 0, minute |-> 0, second |-> 0], [hour |-> 23, minute |-> 59, second |-> 58]}

\* 7-byte blocks a chip may hold before the panel writes it: a time of chip
\* A (12:34:56 ... with day 0x15 at offset 3 and weekday 3 at offset 4), a
\* time of chip B (weekday 7 at offset 3 and day 0x31 at offset 4), and all
\* bits set.  The control register holds 0x12 or 0xFF.
RegBytes == {18, 255}
RegBlocks ==
    { <<86, 52, 18, 21, 3, 17, 36>>,
      <<89, 89, 35, 7, 49, 18, 153>>,
      [i \in 1..7 |-> 255] }

\* The labels before any reading: --:--:-- and ----/--/--.
NoReading ==
    [ src |-> "none", block |-> <<>>, seconds |-> 0, minutes |-> 0, hours |-> 0, days |-> 0,
      weekday |-> 0, months |-> 0, years |-> 0, weekday_name |-> "none" ]

\* The labels after a reading r of the block data by the decode of chip src.
Reading(src, data, r) ==
    [ src |-> src, block |-> data, seconds |-> r.seconds, minutes |-> r.minutes,
      hours |-> r.hours, days |-> r.days, weekday |-> r.weekday, months |-> r.months,
      years |-> r.years, weekday_name |-> r.weekday_name ]

\* Candidate I2C buses of _connect_i2c_rtc: the configured one, then 1, 22, 11, 3.
possible_buses(i2c_bus_num) == <<i2c_bus_num, 1, 22, 11, 3>>

\* A configured bus that is none of the fallbacks, the configured buses, and
\* the buses a connect may try.
OtherBus == 7
ConfigBuses == {1, OtherBus}
I2cBuses == {1, 22, 11, 3, OtherBus}

\* What a bus gives: no device node (SMBus(bus) raises), a node where the
\* address does not answer (read_byte_data raises), or the chip.
BusStates == {"absent", "silent", "chip"}

\* Mutant of probe_buses: the handle of a failed candidate is not closed.
RECURSIVE probe_buses_noclose(_, _, _, _, _)
probe_buses_noclose(buses, i, handle, tried, leaked) ==
    IF i > Len(buses)
    THEN [connected |-> FALSE, handle |-> handle, tried |-> tried, leaked |-> leaked]
    ELSE LET bus == buses[i]
             dropped == IF handle.open THEN leaked \cup {handle.bus} ELSE leaked
         IN CASE i2c[bus] = "absent" ->
                    probe_buses_noclose(buses, i + 1, handle, Append(tried, bus), leaked)
              [] i2c[bus] = "silent" ->
                    probe_buses_noclose(buses, i + 1, [bus |-> bus, open |-> TRUE],
                                        Append(tried, bus), dropped)
              [] OTHER ->
                    [ connected |-> TRUE, handle |-> [bus |-> bus, open |-> TRUE],
                      tried |-> Append(tried, bus), leaked |-> dropped ]

\* The loop over possible_buses in _connect_i2c_rtc from candidate i on, with
\* self.i2c_bus holding handle: SMBus(bus) raises and the handler closes what
\* self.i2c_bus still holds; or the bus opens, the read raises and the handler
\* closes the new handle; or the read succeeds and the loop ends.  tried
\* lists the buses SMBus was called on, leaked the open handles that
\* self.i2c_bus no longer refers to.
RECURSIVE probe_buses(_, _, _, _, _)
probe_buses(buses, i, handle, tried, leaked) ==
    IF i > Len(buses)
    THEN [connected |-> FALSE, handle |-> handle, tried |-> tried, leaked |-> leaked]
    ELSE LET bus == buses[i]
             dropped == IF handle.open THEN leaked \cup {handle.bus} ELSE leaked
         IN CASE i2c[bus] = "absent" ->
                    probe_buses(buses, i + 1, [handle EXCEPT !.open = FALSE],
                                Append(tried, bus), leaked)
              [] i2c[bus] = "silent" ->
                    probe_buses(buses, i + 1, [bus |-> bus, open |-> FALSE],
                                Append(tried, bus), dropped)
              [] OTHER ->
                    [ connected |-> TRUE, handle |-> [bus |-> bus, open |-> TRUE],
                      tried |-> Append(tried, bus), leaked |-> dropped ]

\* RTCPanel.__init__ and the widgets' initial values; set_date, set_time hold
\* date_edit.date() and time_edit.time(), dialog the last message box, sets
\* counts the calls of set_rtc_time.
RTCPanel_init ==
    [ rtc_active  |-> FALSE,
      i2c_bus     |-> None,              \* bus number of the SMBus object held
      i2c_open    |-> FALSE,             \* whether that object is open
      rtc_type    |-> "pcf85063a",
      rtc_address |-> 81,
      type_combo  |-> 0,                 \* 0 PCF85063A, 1 DS3231, 2 System RTC
      i2c_bus_num |-> 1,                 \* config.get('i2c_bus', 1)
      tried       |-> <<>>,              \* buses the last connect called SMBus on
      leaked      |-> {},                \* open handles no attribute refers to
      timer       |-> FALSE,             \* update_timer.isActive()
      status      |-> "Not Connected",
      battery     |-> "--",
      reading     |-> NoReading,
      set_date    |-> [year |-> 2000, month |-> 1, day |-> 1],
      set_time    |-> [hour |-> 0, minute |-> 0, second |-> 0],
      dialog      |-> "none",
      ops         |-> <<>>,              \* I2C transfers of the last set_rtc_time
      sets        |-> 0 ]

\* A step of the RTC panel: the other panels keep their state.
RtcFrame ==
    /\ tab = "rtc"
    /\ UNCHANGED <<tab, gps, gps_sess, lora, lora_sess, sdr, sdr_dev, sdr_thr, gpsd_vars, bcd, i2c, dsp_vars, nmea>>

\* RTCPanel._connect_system_rtc: hwclock -r succeeded or not.
connect_system_rtc(ok) ==
    /\ rtc' = IF ok
              THEN [rtc EXCEPT !.rtc_active = TRUE, !.rtc_type = "system", !.timer = TRUE,
                               !.status = "Connected to System RTC", !.battery = "N/A"]
              ELSE [rtc EXCEPT !.status = "System RTC failed"]
    /\ UNCHANGED rtc_chip

\* RTCPanel._connect_i2c_rtc: smbus2 missing (imported false); otherwise the
\* type and address follow the combo box and the candidate buses are probed.
\* When one answered, the panel is active, and for chip A the battery label
\* follows the oscillator-stop bit unless the status read raised (status =
\* "raised"); when none did, the status shows the failure.
connect_i2c_rtc(imported, status) ==
    LET type == IF rtc.type_combo = 0 THEN "pcf85063a" ELSE "ds3231"
        address == IF rtc.type_combo = 0 THEN 81 ELSE 104
        probe == probe_buses(possible_buses(rtc.i2c_bus_num), 1,
                             [bus |-> rtc.i2c_bus, open |-> rtc.i2c_open], <<>>, rtc.leaked)
        r == [rtc EXCEPT !.rtc_type = type, !.rtc_address = address,
                         !.i2c_bus = probe.handle.bus, !.i2c_open = probe.handle.open,
                         !.tried = probe.tried, !.leaked = probe.leaked]
    IN
    /\ rtc' = IF ~imported
              THEN [rtc EXCEPT !.status = "smbus2 not installed"]
              ELSE IF probe.connected
              THEN [r EXCEPT !.rtc_active = TRUE, !.timer = TRUE,
                             !.status = "Connected",
                             !.battery =
                                 IF type = "ds3231" THEN "CR2032"
                                 ELSE IF status = "raised" THEN "CR1220"
                                 ELSE IF BitAnd(rtc_chip.regs[1], 128) # 0
                                 THEN "LOW (oscillator stopped)" ELSE "OK"]
              ELSE [r EXCEPT !.status = "Connection failed"]
    /\ UNCHANGED rtc_chip

\* RTCPanel.connect_rtc
connect_rtc ==
    IF rtc.type_combo = 2
    THEN \E ok \in BOOLEAN : connect_system_rtc(ok)
    ELSE \E imported \in BOOLEAN : \E status \in {"ok", "raised"} :
            connect_i2c_rtc(imported, status)

\* RTCPanel.disconnect_rtc
disconnect_rtc ==
    /\ rtc' = [rtc EXCEPT !.rtc_active = FALSE, !.timer = FALSE,
                          !.i2c_bus = None, !.i2c_open = FALSE,
                          !.status = "Disconnected", !.reading = NoReading]
    /\ UNCHANGED rtc_chip

\* RTCPanel.toggle_rtc (connect button, or initialize() at startup).
toggle_rtc ==
    /\ RtcFrame
    /\ IF rtc.rtc_active THEN disconnect_rtc ELSE connect_rtc

\* RTCPanel.cleanup
rtc_cleanup ==
    /\ RtcFrame
    /\ disconnect_rtc

\* RTCPanel.update_display, the slot of update_timer: nothing when the panel
\* is not active; otherwise the 7-byte block is read and decoded as the chip
\* type says, or the read raises and the status shows the error.  The system
\* clock reading is not decoded from registers.
update_display ==
    /\ RtcFrame
    /\ rtc.timer
    /\ IF ~rtc.rtc_active THEN UNCHANGED rtc
       ELSE IF rtc.rtc_type = "system"
       THEN rtc' = [rtc EXCEPT !.reading = [NoReading EXCEPT !.src = "system"]]
       ELSE \E io \in {"ok", "raised"} :
               rtc' = IF io = "raised" THEN [rtc EXCEPT !.status = "Read error"]
                      ELSE IF rtc.rtc_type = "pcf85063a"
                      THEN [rtc EXCEPT !.reading =
                              Reading("pcf85063a", rtc_chip.regs, read_pcf85063a(rtc_chip.regs))]
                      ELSE [rtc EXCEPT !.reading =
                              Reading("ds3231", rtc_chip.regs, read_ds3231(rtc_chip.regs))]
    /\ UNCHANGED rtc_chip

\* One I2C transfer: op is "write_block", "read_byte" or "write_byte", reg the
\* register address, n the number of data bytes.
Transfer(op, reg, n) == [op |-> op, reg |-> reg, n |-> n]

\* Mutant of set_pcf85063a: control register 1 is written as zero.
set_pcf85063a_clobber(chip, date, time, io) ==
    IF io = "write"
    THEN [chip |-> chip, ops |-> <<Transfer("write_block", 4, 7)>>, raised |-> TRUE]
    ELSE [ chip   |-> [regs |-> set_pcf85063a_data(date, time), ctrl1 |-> 0],
           ops    |-> <<Transfer("write_block", 4, 7), Transfer("read_byte", 0, 1),
                        Transfer("write_byte", 0, 1)>>,
           raised |-> io # "ok" ]

\* RTCPanel._set_pcf85063a on the chip: the transfers attempted, the chip
\* afterwards, and whether a transfer raised (io: write, the block write;
\* ctrl_read, the read of control register 1; ctrl_write, its write).
set_pcf85063a(chip, date, time, io) ==
    LET written == [chip EXCEPT !.regs = set_pcf85063a_data(date, time)]
        block == Transfer("write_block", 4, 7)
        read == Transfer("read_byte", 0, 1)
        write == Transfer("write_byte", 0, 1)
    IN CASE io = "write" -> [chip |-> chip, ops |-> <<block>>, raised |-> TRUE]
         [] io = "ctrl_read" -> [chip |-> written, ops |-> <<block, read>>, raised |-> TRUE]
         [] io = "ctrl_write" ->
               [chip |-> written, ops |-> <<block, read, write>>, raised |-> TRUE]
         [] OTHER ->
               [ chip   |-> [written EXCEPT !.ctrl1 = BitAnd(chip.ctrl1, 127)],
                 ops    |-> <<block, read, write>>,
                 raised |-> FALSE ]

\* RTCPanel._set_ds3231 on the chip.
set_ds3231(chip, date, time, io) ==
    IF io = "write"
    THEN [chip |-> chip, ops |-> <<Transfer("write_block", 0, 7)>>, raised |-> TRUE]
    ELSE [ chip   |-> [chip EXCEPT !.regs = set_ds3231_data(date, time)],
           ops    |-> <<Transfer("write_block", 0, 7)>>,
           raised |-> FALSE ]

\* Outcomes of the transfers of one call of set_rtc_time.
SetOutcomes == {"ok", "write", "ctrl_read", "ctrl_write"}

\* RTCPanel.set_rtc_time with the date and time the user entered: a warning
\* when the panel is not active; otherwise the write of the chip type
\* (hwclock --set for the system clock, which fails unless io is ok), then the
\* Success box, or the Error box when a step raised.  ops holds the I2C
\* transfers of the call.
set_rtc_time(date, time, io) ==
    /\ RtcFrame
    /\ rtc.sets < MaxSets
    /\ LET r == [rtc EXCEPT !.set_date = date, !.set_time = time, !.sets = @ + 1, !.ops = <<>>] IN
       IF ~rtc.rtc_active
       THEN rtc' = [r EXCEPT !.dialog = "Not Connected"] /\ UNCHANGED rtc_chip
       ELSE IF rtc.rtc_type = "system"
       THEN /\ rtc' = [r EXCEPT !.dialog = IF io = "ok" THEN "Success" ELSE "Error"]
            /\ UNCHANGED rtc_chip
       ELSE LET res == IF rtc.rtc_type = "pcf85063a"
                       THEN set_pcf85063a(rtc_chip, date, time, io)
                       ELSE set_ds3231(rtc_chip, date, time, io)
            IN /\ rtc' = [r EXCEPT !.dialog = IF res.raised THEN "Error" ELSE "Success",
                                   !.ops = res.ops]
               /\ rtc_chip' = res.chip

\* RTCPanel.is_active
rtc_is_active == rtc.rtc_active

\* No pass of the capture loop under way.
DspIdle ==
    [ power_db |-> <<>>, current_freq |-> 0, sample_rate |-> 0, pc |-> "idle",
      avg_power |-> 0, peak_power |-> 0, peak_idx |-> 0, peak_freq |-> [hz |-> 0, frac |-> 0],
      tuned_freq |-> 0, tuned_rate |-> 0 ]

\* No call of the BCD helpers under way.
BcdIdle == [x |-> 0, byte |-> 0, back |-> 0, pc |-> "idle"]

\* The chip on one bus, the other buses without device node.
ChipOn(bus) == [b \in I2cBuses |-> IF b = bus THEN "chip" ELSE "absent"]

\* The I2C buses of the behaviours of SpecRtc: the chip on the configured
\* bus; the chip on the last fallback behind buses that do not answer; no
\* chip and no bus.
RtcBuses ==
    { ChipOn(1),
      [b \in I2cBuses |-> IF b = 3 THEN "chip" ELSE "silent"],
      [b \in I2cBuses |-> "absent"] }

\* The RTC panel as constructed with the default configuration.
RtcIdle ==
    /\ rtc = RTCPanel_init
    /\ rtc_chip = [regs |-> [i \in 1..7 |-> 255], ctrl1 |-> 18]
    /\ bcd = BcdIdle
    /\ i2c = ChipOn(1)
    /\ dsp = DspIdle

\* The RTC panel as constructed with a configuration of any of the three
\* types (apply_config selects the type in the combo box); the chip holds any
\* block of RegBlocks and any control byte of RegBytes.
RtcInit ==
    /\ tab = "rtc"
    /\ GPSInit
    /\ LoRaInit
    /\ SDRInit
    /\ GpsdIdle
    /\ \E c \in {0, 1, 2} :
          rtc = [RTCPanel_init EXCEPT
                    !.type_combo = c,
                    !.rtc_type = IF c = 0 THEN "pcf85063a" ELSE IF c = 1 THEN "ds3231" ELSE "system"]
    /\ \E b \in RegBlocks : \E c \in RegBytes : rtc_chip = [regs |-> b, ctrl1 |-> c]
    /\ bcd = BcdIdle
    /\ i2c \in RtcBuses
    /\ dsp = DspIdle

RtcNext ==
    \/ toggle_rtc
    \/ rtc_cleanup
    \/ update_display
    \/ \E date \in SetDates : \E time \in SetTimes : \E io \in SetOutcomes :
          set_rtc_time(date, time, io)

SpecRtc == RtcInit /\ [][RtcNext]_vars

\* Bus discovery on its own: an I2C chip type, either configured bus, and
\* any state of the five buses; the panel is connected and disconnected.
RtcBusInit ==
    /\ tab = "rtc"
    /\ GPSInit
    /\ LoRaInit
    /\ SDRInit
    /\ GpsdIdle
    /\ \E c \in {0, 1} : \E n \in ConfigBuses :
          rtc = [RTCPanel_init EXCEPT
                    !.type_combo = c,
                    !.rtc_type = IF c = 0 THEN "pcf85063a" ELSE "ds3231",
                    !.i2c_bus_num = n]
    /\ rtc_chip = [regs |-> [i \in 1..7 |-> 255], ctrl1 |-> 18]
    /\ bcd = BcdIdle
    /\ i2c \in [I2cBuses -> BusStates]
    /\ dsp = DspIdle

RtcBusNext == toggle_rtc \/ rtc_cleanup

SpecRtcBus == RtcBusInit /\ [][RtcBusNext]_vars

\* The BCD helpers on their own: a value of 0..99 (a year of the century, a
\* day, an hour, ...) is encoded as _set_pcf85063a and _set_ds3231 encode it,
\* and the byte is decoded as _read_pcf85063a and _read_ds3231 decode it.
BcdInputs == 0..99

BcdFrame ==
    UNCHANGED <<tab, gps, gps_sess, lora, lora_sess, sdr, sdr_dev, sdr_thr, gpsd_vars, rtc, rtc_chip, i2c, dsp_vars, nmea>>

bcd_encode ==
    /\ BcdFrame
    /\ bcd.pc = "start"
    /\ bcd' = [bcd EXCEPT !.byte = dec_to_bcd(bcd.x), !.pc = "encoded"]

bcd_decode ==
    /\ BcdFrame
    /\ bcd.pc = "encoded"
    /\ bcd' = [bcd EXCEPT !.back = bcd_to_dec(bcd.byte), !.pc = "decoded"]

BcdInit ==
    /\ tab = "rtc"
    /\ GPSInit
    /\ LoRaInit
    /\ SDRInit
    /\ GpsdIdle
    /\ rtc = RTCPanel_init
    /\ rtc_chip = [regs |-> [i \in 1..7 |-> 255], ctrl1 |-> 18]
    /\ i2c = ChipOn(1)
    /\ dsp = DspIdle
    /\ \E x \in BcdInputs : bcd = [x |-> x, byte |-> 0, back |-> 0, pc |-> "start"]

BcdNext == bcd_encode \/ bcd_decode

SpecBcd == BcdInit /\ [][BcdNext]_vars

\* The dates of the years the chips can hold, and a time of day for each:
\* over the dates, every hour, every minute and every second occurs.
TripDates ==
    {date \in {[year |-> y, month |-> m, day |-> d] :
                 y \in FirstYear..LastYear, m \in 1..12, d \in 1..31} :
        date.day <= DaysInMonth(date.year, date.month)}

TimeOfDay(n) == [hour |-> n % 24, minute |-> n % 60, second |-> (7 * n) % 60]

\* datetime.date.strftime('%A') of a date: calendar.weekday counts from Monday.
DayName(date) ==
    << "Monday", "Tuesday", "Wednesday", "Thursday", "Friday", "Saturday", "Sunday" >>
        [calendar_weekday(date) + 1]

\* RTCPanel._set_pcf85063a / _set_ds3231: the 7-byte block for the date and
\* time is written to the time registers of the chip.
write_block ==
    /\ BcdFrame
    /\ bcd.pc = "set"
    /\ bcd' = [bcd EXCEPT !.data = IF bcd.rtc_type = "pcf85063a"
                                   THEN set_pcf85063a_data(bcd.date, bcd.time)
                                   ELSE set_ds3231_data(bcd.date, bcd.time),
                          !.pc = "written"]

\* RTCPanel._read_pcf85063a / _read_ds3231 on the block that was written.
read_block ==
    /\ BcdFrame
    /\ bcd.pc = "written"
    /\ bcd' = [bcd EXCEPT !.reading = IF bcd.rtc_type = "pcf85063a"
                                      THEN read_pcf85063a(bcd.data)
                                      ELSE read_ds3231(bcd.data),
                          !.pc = "read"]

TripInit ==
    /\ tab = "rtc"
    /\ GPSInit
    /\ LoRaInit
    /\ SDRInit
    /\ GpsdIdle
    /\ rtc = RTCPanel_init
    /\ rtc_chip = [regs |-> [i \in 1..7 |-> 255], ctrl1 |-> 18]
    /\ i2c = ChipOn(1)
    /\ dsp = DspIdle
    /\ \E type \in {"pcf85063a", "ds3231"} : \E date \in TripDates :
          bcd = [ rtc_type |-> type, date |-> date, time |-> TimeOfDay(Ordinal(date)),
                  data |-> <<>>, reading |-> NoReading, pc |-> "set" ]

TripNext == write_block \/ read_block

SpecTrip == TripInit /\ [][TripNext]_vars

(***************************************************************************)
(* The application: one panel of each kind (src/main.py, lines 70-73).     *)
(* The panels share no attribute; a behaviour operates the panel of one    *)
(* tab and leaves the others as constructed.                               *)
(***************************************************************************)

Tabs == {"gps", "lora", "sdr"}

Init ==
    /\ tab \in Tabs
    /\ GPSInit
    /\ LoRaInit
    /\ SDRInit
    /\ GpsdIdle
    /\ RtcIdle

Next == GPSNext \/ LoRaNext \/ SDRNext

Spec == Init /\ [][Next]_vars

\* The behaviours of Spec in which the RTL-SDR panel is the one operated.
SdrInit == Init /\ tab = "sdr"
SpecSdr == SdrInit /\ [][SDRNext]_vars

(***************************************************************************)
(* One pass of RTLSDRPanel._capture_loop over a window of power values     *)
(* (rtlsdr_panel.py, lines 400-414).  Powers are in hundredths of a dB,    *)
(* frequencies in Hz with a fraction in units of 1/fft_size Hz.            *)
(***************************************************************************)

\* fft_size = 1024
fft_size == 1024

\* Bins of a window after fftshift.
Bins == 0..(fft_size - 1)

\* np.max(power_db)
np_max(w) ==
    LET levels == {w[i] : i \in DOMAIN w} IN
    CHOOSE p \in levels : \A q \in levels : q <= p

\* np.argmax(power_db): the first index of the maximum.
np_argmax(w) ==
    LET top == np_max(w)
        at == {i \in DOMAIN w : w[i] = top}
    IN CHOOSE i \in at : \A j \in at : i <= j

\* The sum of w[lo..hi], the numerator of np.mean(power_db).
RECURSIVE np_sum(_, _, _)
np_sum(w, lo, hi) ==
    IF lo = hi THEN w[lo]
    ELSE LET mid == (lo + hi) \div 2 IN np_sum(w, lo, mid) + np_sum(w, mid + 1, hi)

\* Mutant of peak_frequency: the bin index is not centred.
peak_frequency_unshifted(peak_idx, current_freq, sample_rate) ==
    LET num == peak_idx * sample_rate IN
    [hz |-> current_freq + (num \div fft_size), frac |-> num % fft_size]

\* peak_freq = self.current_freq + (peak_idx - fft_size/2) * self.sample_rate / fft_size
peak_frequency(peak_idx, current_freq, sample_rate) ==
    LET num == (peak_idx - (fft_size \div 2)) * sample_rate IN
    [hz |-> current_freq + (num \div fft_size), frac |-> num % fft_size]

\* Windows analysed: a noise floor of -60 dB with one bin at 12.34 dB
\* (single), with a second bin of the same power seven bins further, wrapping
\* round (pair), or with every bin at the floor (flat).
Window(bin, shape) ==
    [i \in Bins |->
        IF shape # "flat" /\ (i = bin \/ (shape = "pair" /\ i = (bin + 7) % fft_size))
        THEN 1234 ELSE -6000]

\* RTLSDRPanel._capture_loop, lines 406-414: the signal metrics of the window
\* are computed and emitted with power_updated.
capture_frame ==
    /\ UNCHANGED <<tab, gps, gps_sess, lora, lora_sess, sdr, sdr_dev, sdr_thr, gpsd_vars, rtc_vars, nmea>>
    /\ dsp.pc = "samples"
    /\ LET peak_idx == np_argmax(dsp.power_db) IN
       dsp' = [dsp EXCEPT
                  !.avg_power = np_sum(dsp.power_db, 0, fft_size - 1) \div fft_size,
                  !.peak_power = np_max(dsp.power_db),
                  !.peak_idx = peak_idx,
                  !.peak_freq = peak_frequency(peak_idx, dsp.current_freq, dsp.sample_rate),
                  !.pc = "emitted"]

\* A window read while the device is tuned to one of the frequencies and
\* sample rates of the panel.
DspInit ==
    /\ tab = "sdr"
    /\ GPSInit
    /\ LoRaInit
    /\ SDRInit
    /\ GpsdIdle
    /\ rtc = RTCPanel_init
    /\ rtc_chip = [regs |-> [i \in 1..7 |-> 255], ctrl1 |-> 18]
    /\ bcd = BcdIdle
    /\ i2c = ChipOn(1)
    /\ \E bin \in Bins : \E shape \in {"single", "pair", "flat"} : \E r \in RateChoices :
          dsp = [DspIdle EXCEPT !.power_db = Window(bin, shape),
                                !.current_freq = (IF r = 0 THEN 433 ELSE 100) * 1000000,
                                !.sample_rate = SampleRateOf(r),
                                !.pc = "samples"]

DspNext == capture_frame

SpecDsp == DspInit /\ [][DspNext]_vars

\* RTLSDRPanel._capture_loop, line 398: read_samples returns a block; it was
\* sampled with the centre frequency and the sample rate the device had.
capture_samples ==
    /\ UNCHANGED <<tab, gps, gps_sess, lora, lora_sess, sdr, sdr_dev, sdr_thr, gpsd_vars, rtc_vars, nmea>>
    /\ tab = "sdr" /\ dsp.pc = "read"
    /\ sdr.running /\ sdr.sdr # None
    /\ \E bin \in {0, 512, 1023} :
          dsp' = [dsp EXCEPT !.power_db = Window(bin, "single"),
                             !.tuned_freq = sdr_dev[sdr.sdr].center_freq,
                             !.tuned_rate = sdr_dev[sdr.sdr].sample_rate,
                             !.pc = "fft"]

\* RTLSDRPanel._capture_loop, lines 402-410: after the FFT the thread reads
\* self.current_freq and self.sample_rate for the peak frequency.
capture_settings ==
    /\ UNCHANGED <<tab, gps, gps_sess, lora, lora_sess, sdr, sdr_dev, sdr_thr, gpsd_vars, rtc_vars, nmea>>
    /\ tab = "sdr" /\ dsp.pc = "fft"
    /\ dsp' = [dsp EXCEPT !.current_freq = sdr.current_freq,
                          !.sample_rate = sdr.sample_rate,
                          !.pc = "samples"]

\* RTLSDRPanel._capture_loop, lines 413-414 and 395: the frame is emitted
\* and the next iteration begins.
capture_again ==
    /\ UNCHANGED <<tab, gps, gps_sess, lora, lora_sess, sdr, sdr_dev, sdr_thr, gpsd_vars, rtc_vars, nmea>>
    /\ tab = "sdr" /\ dsp.pc = "emitted"
    /\ dsp' = [dsp EXCEPT !.pc = "read"]

\* The SDR panel initialized with its default settings and capturing, the
\* capture thread inside read_samples.
RetuneInit ==
    /\ tab = "sdr"
    /\ GPSInit
    /\ LoRaInit
    /\ GpsdIdle
    /\ rtc = RTCPanel_init
    /\ rtc_chip = [regs |-> [i \in 1..7 |-> 255], ctrl1 |-> 18]
    /\ bcd = BcdIdle
    /\ i2c = ChipOn(1)
    /\ sdr = [apply_sdr_settings_panel(RTLSDRPanel_init) EXCEPT
                 !.sdr = 1, !.sdr_active = TRUE, !.start_btn = TRUE, !.running = TRUE,
                 !.capture_thread = 1, !.status = "Capturing..."]
    /\ sdr_dev = apply_sdr_settings_device(
                     [n \in Sessions |-> IF n = 1 THEN [NoDevice EXCEPT !.handle = "open"]
                                         ELSE NoDevice], 1, RTLSDRPanel_init)
    /\ sdr_thr = [k \in Threads |->
                     IF k = 1 THEN [pc |-> "io", dev |-> 1, obj |-> 1, exit |-> "none",
                                    stop_req |-> FALSE]
                     ELSE NoThread]
    /\ dsp = [DspIdle EXCEPT !.pc = "read"]

\* The user re-tunes while the capture loop runs.
RetuneNext ==
    \/ sdr_edit_settings
    \/ apply_settings
    \/ capture_samples
    \/ capture_settings
    \/ capture_frame
    \/ capture_again

SpecRetune == RetuneInit /\ [][RetuneNext]_vars

\* The behaviours of Spec in which the GPS panel is the one operated.
GpsInit == Init /\ tab = "gps"
SpecGps == GpsInit /\ [][GPSNext]_vars

\* The steps of one reader thread of the GPS panel, of one poller of the LoRa
\* panel and of one capture thread of the SDR panel.
gps_reader(n) ==
    \/ gpsd_reader_check(n) \/ gpsd_reader_enter(n) \/ gpsd_reader_recv(n)
    \/ serial_reader_start(n) \/ serial_reader_check(n) \/ serial_reader_enter(n)
    \/ serial_reader_readline(n)

poll_meshtastic(n) == poll_check(n) \/ poll_enter(n) \/ poll_get(n) \/ poll_sleep(n)

capture_loop(k) == capture_check(k) \/ capture_enter(k) \/ capture_read(k)

\* join(timeout=2.0) of a teardown returns.
join_returns ==
    disconnect_gps_end \/ disconnect_lora_end \/ stop_capture_return \/ deinit_sdr_end

\* Scheduling: every started thread keeps running (each blocking read, GET
\* or sleep returns or times out, and the loop test that follows is
\* evaluated), and a bounded join returns.
Scheduling ==
    /\ \A n \in Sessions : WF_vars(gps_reader(n)) /\ WF_vars(poll_meshtastic(n))
    /\ \A k \in Threads : WF_vars(capture_loop(k))
    /\ WF_vars(join_returns)

\* The handlers that start and stop sessions, and the threads; what the user
\* types or selects besides (message text, tuning) plays no part in a stop.
StopNext ==
    \/ GPSNext
    \/ toggle_lora \/ lora_cleanup \/ disconnect_lora_end \/ lora_select_mode
    \/ \E n \in Sessions : poll_meshtastic(n)
    \/ toggle_sdr \/ sdr_cleanup \/ deinit_sdr_end \/ toggle_capture
    \/ stop_capture_return \/ apply_settings
    \/ \E k \in Threads : capture_loop(k)

SpecStop == Init /\ [][StopNext]_vars /\ Scheduling

\* A gpsd session over any stream of at most MaxLines lines.
GpsdInit ==
    /\ tab = "gps"
    /\ GpsdConnected
    /\ LoRaInit
    /\ SDRInit
    /\ \E n \in 1..MaxLines : \E ls \in [1..n -> WireLines] :
          gpsd_wire = [stream |-> Stream(ls), pos |-> 0, closed |-> FALSE]
    /\ gpsd_rd = GpsdReader_init
    /\ gps_fix = GPSData_init
    /\ nmea = NmeaIdle
    /\ RtcIdle

GpsdNext ==
    \/ \E k \in 1..(Len(gpsd_wire.stream) - gpsd_wire.pos) : gpsd_reader_data(k)
    \/ gpsd_reader_ioerror
    \/ update_ui_from_data

SpecGpsd == GpsdInit /\ [][GpsdNext]_vars

\* The gpsd data path with a daemon that may close the connection: one line
\* is on its way, the reader evaluates its loop test between reads and keeps
\* running (its recv returns), the GUI thread runs the slot.
EofInit == GpsdInit /\ \E l \in WireLines : gpsd_wire.stream = Stream(<<l>>)

\* recv returns bytes that gpsd sent.
gpsd_reader_bytes ==
    \E k \in 1..(Len(gpsd_wire.stream) - gpsd_wire.pos) : gpsd_reader_data(k)

\* The reader is in recv and bytes it has not read are there: the condition
\* under which gpsd_reader_bytes can happen.
BytesWaiting ==
    /\ gps_sess[1].pc = "io" /\ gps_fix.slot # "aborted"
    /\ gpsd_wire.pos < Len(gpsd_wire.stream)

EofNext ==
    \/ gpsd_reader_bytes
    \/ gpsd_reader_eof
    \/ gpsd_reader_check(1)
    \/ gpsd_reader_enter(1)
    \/ gpsd_reader_ioerror
    \/ update_ui_from_data
    \/ gpsd_closes

\* The reader thread keeps running: recv returns what is there, or b'' at
\* the end of a closed connection, and the loop test is evaluated.  (The
\* second conjunct is weak fairness of gpsd_reader_bytes, written out.)
EofScheduling ==
    /\ WF_vars(gpsd_reader_eof \/ gpsd_reader_check(1) \/ gpsd_reader_enter(1))
    /\ ([]<>(~BytesWaiting) \/ []<><<gpsd_reader_bytes>>_vars)

SpecEof == EofInit /\ [][EofNext]_vars /\ EofScheduling

\* The GPS panel connected to a serial receiver by session 1, its reader
\* thread just started, and the lines the receiver is going to send.
NmeaInit ==
    /\ tab = "gps"
    /\ gps = [GPSPanel_init EXCEPT !.serial_port = 1, !.running = TRUE, !.gpsd_thread = 1,
                                   !.mode_combo = 1, !.status = "Connected", !.log_btn = TRUE]
    /\ gps_sess = [n \in Sessions |->
          IF n = 1
          THEN [kind |-> "serial", handle |-> "open", pc |-> "start", obj |-> None, exit |-> "none"]
          ELSE NoSession]
    /\ LoRaInit
    /\ SDRInit
    /\ gpsd_wire = [stream |-> <<>>, pos |-> 0, closed |-> FALSE]
    /\ gpsd_rd = GpsdReader_init
    /\ gps_fix = GPSData_init
    /\ \E n \in 1..MaxLines : \E ls \in [1..n -> NmeaLines] : nmea = [lines |-> ls, pos |-> 0]
    /\ RtcIdle

NmeaNext ==
    \/ serial_reader_start(1)
    \/ serial_reader_check(1)
    \/ serial_reader_enter(1)
    \/ serial_reader_line(1)
    \/ update_ui_from_data

SpecNmea == NmeaInit /\ [][NmeaNext]_vars

(***************************************************************************)
(* Properties                                                              *)
(***************************************************************************)

\* The threads of a panel that are alive.
LiveGps == {n \in Sessions : Alive(gps_sess[n])}
LiveLora == {n \in Sessions : Alive(lora_sess[n])}
LiveSdr == {k \in Threads : Alive(sdr_thr[k])}

\* C1: in every teardown the session's handle is closed only after the
\* session's reader thread has exited: no state has a closed handle whose
\* reader thread (GPS reader, LoRa poller, SDR capture thread) is still alive.
C1_HandleClosedOnlyAfterThreadExit ==
    /\ \A n \in Sessions : gps_sess[n].handle = "closed" => ~Alive(gps_sess[n])
    /\ \A n \in Sessions : lora_sess[n].handle = "closed" => ~Alive(lora_sess[n])
    /\ \A k \in Threads : Alive(sdr_thr[k]) => sdr_dev[sdr_thr[k].dev].handle # "closed"

\* C2: while a session's reader thread is running, nobody else touches the
\* session's handle: no step changes (closes, re-tunes) a GPS or LoRa handle
\* whose reader is alive, and between start_capture and the end of
\* stop_capture (running set) no step changes the SDR device object.
C2_HandleTouchedByReaderOnly ==
    [][ /\ \A n \in Sessions : Alive(gps_sess[n]) => gps_sess'[n].handle = gps_sess[n].handle
        /\ \A n \in Sessions : Alive(lora_sess[n]) => lora_sess'[n].handle = lora_sess[n].handle
        /\ sdr.running => sdr_dev' = sdr_dev ]_vars

\* C3: once the reader thread of the current GPS session has ended on a
\* socket/serial I/O error, the session is Disconnected: is_active() is false
\* (so the next toggle_connection connects).
C3_IoErrorDisconnects ==
    \A n \in Sessions :
        (gps.pc = "idle" /\ gps.gpsd_thread = n /\ gps_sess[n].exit = "ioerror")
            => ~gps_is_active

\* C7: each panel has at most one live background thread at any time.
C7_OneLiveThread ==
    /\ Cardinality(LiveGps) <= 1
    /\ Cardinality(LiveLora) <= 1
    /\ Cardinality(LiveSdr) <= 1

\* C8: disconnect_gps works in the order running := false, close the owned
\* handles, join, stop file logging.  The step up to the join clears running,
\* closes and drops both handles and leaves the thread handle and the logging
\* state as they were; nothing changes the panel while it joins; the step
\* after the join ends with running false, both handles and the thread handle
\* None and is_logging false, whatever state disconnect_gps was called in.
C8_DisconnectGpsOrderAndResult ==
    [][ /\ (gps.pc = "idle" /\ gps'.pc = "join") =>
              /\ ~gps'.running
              /\ gps'.gpsd_socket = None /\ gps'.serial_port = None
              /\ gps.gpsd_socket # None => gps_sess'[gps.gpsd_socket].handle = "closed"
              /\ gps.serial_port # None => gps_sess'[gps.serial_port].handle = "closed"
              /\ gps'.gpsd_thread = gps.gpsd_thread
              /\ gps'.is_logging = gps.is_logging /\ gps'.log_file = gps.log_file
        /\ (gps.pc = "join" /\ gps'.pc = "join") => gps' = gps
        /\ (gps.pc = "join" /\ gps'.pc # "join") =>
              /\ gps'.pc = "idle"
              /\ ~gps'.running
              /\ gps'.gpsd_socket = None /\ gps'.serial_port = None
              /\ gps'.gpsd_thread = None
              /\ ~gps'.is_logging /\ gps'.log_file = None ]_vars

\* C8 witness: disconnect_gps is at its join, called while file logging was
\* on and the reader thread is still alive.
C8_Witness ==
    /\ gps.pc = "join" /\ gps.is_logging
    /\ gps.gpsd_thread # None /\ Alive(gps_sess[gps.gpsd_thread])

\* Status texts of a failed connect.
LoraFailed == {"requests library not installed", "Connection failed",
               "spidev not installed", "SPI failed"}
SdrFailed == {"pyrtlsdr not installed", "Init failed"}

\* A step that starts a background thread of the panel.
GpsThreadStarted == \E n \in Sessions : gps_sess[n].pc = "none" /\ gps_sess'[n].pc # "none"
LoraThreadStarted == \E n \in Sessions : lora_sess[n].pc = "none" /\ lora_sess'[n].pc # "none"
SdrThreadStarted == \E k \in Threads : sdr_thr[k].pc = "none" /\ sdr_thr'[k].pc # "none"

\* C9: a failed connect (GPS either mode, LoRa either mode, SDR initialize)
\* leaves the active flag false and starts no thread; and nothing but a user
\* request (the toggle handler) makes a panel active or starts a GPS or LoRa
\* thread afterwards: there is no automatic retry.
C9_FailedConnectStaysDisconnected ==
    [][ /\ (toggle_connection /\ ~gps.running /\ gps'.status = "Failed") =>
              ~gps'.running /\ ~GpsThreadStarted /\ gps'.gpsd_thread = gps.gpsd_thread
        /\ (toggle_lora /\ ~lora.lora_active /\ lora'.status \in LoraFailed) =>
              /\ ~lora'.lora_active /\ ~lora'.running
              /\ ~LoraThreadStarted /\ lora'.polling_thread = lora.polling_thread
        /\ (toggle_sdr /\ ~sdr.sdr_active /\ sdr'.status \in SdrFailed) =>
              ~sdr'.sdr_active /\ ~sdr'.running /\ ~SdrThreadStarted
        /\ ((~gps.running /\ gps'.running) \/ GpsThreadStarted) => toggle_connection
        /\ ((~lora.lora_active /\ lora'.lora_active) \/ LoraThreadStarted) => toggle_lora
        /\ (~sdr.sdr_active /\ sdr'.sdr_active) => toggle_sdr ]_vars

\* C9 witness: an SDR initialize failed after the device had been opened.
C9_Witness ==
    /\ sdr.status = "Init failed" /\ sdr.sdr # None
    /\ ~sdr.sdr_active /\ sdr.pc = "idle"

\* C10: in mesh mode the client becomes Connected only by a connect whose
\* reachability GET answered 200; a connect whose GET answered otherwise or
\* raised leaves it Disconnected with no thread; a polling thread is started
\* only by a step that leaves the client Connected.
C10_MeshConnectedOnlyAfter200 ==
    [][ /\ \A n \in Sessions :
              (lora_sess[n].kind = "none" /\ lora_sess'[n].kind = "mesh") =>
                 IF lora'.response = 200
                 THEN lora'.lora_active /\ lora'.running /\ lora'.polling_thread = n
                 ELSE /\ ~lora'.lora_active /\ ~lora'.running
                      /\ ~LoraThreadStarted /\ lora'.polling_thread = lora.polling_thread
        /\ (lora.mode_combo = 0 /\ ~lora.lora_active /\ lora'.lora_active) =>
              /\ lora'.response = 200
              /\ \E n \in Sessions : lora_sess[n].kind = "none" /\ lora_sess'[n].kind = "mesh"
        /\ LoraThreadStarted =>
              lora'.lora_active /\ lora'.running /\ lora'.response = 200 ]_vars

\* C10 witness: connected in mesh mode, the polling thread running.
C10_Witness ==
    /\ lora.lora_active /\ lora.status = "Connected to Meshtastic"
    /\ lora.polling_thread # None /\ Alive(lora_sess[lora.polling_thread])

\* C4: in daemon mode no content of a received line ends the reader: a gpsd
\* reader thread that has ended did so on a socket error or a stop request,
\* never on an exception raised while a line was processed.
C4_LineContentNeverEndsReader ==
    \A n \in Sessions :
        gps_sess[n].kind = "gpsd" /\ gps_sess[n].pc = "done"
            => gps_sess[n].exit \in {"ioerror", "stop"}

\* The position fields of the consumer and the report keys that supply them.
PositionFields ==
    {"latitude", "longitude", "altitude", "speed", "track", "fix_mode", "time_utc", "hdop"}
SuppliedBy(f) ==
    CASE f = "latitude" -> {"lat"}
      [] f = "longitude" -> {"lon"}
      [] f = "altitude" -> {"altMSL", "alt"}
      [] f = "fix_mode" -> {"mode"}
      [] f = "time_utc" -> {"time"}
      [] OTHER -> {f}

\* C5: position fields update independently: a stored position field changes
\* only when the report being delivered carries that field; a report without
\* it leaves the stored value as it was.
C5_AbsentFieldLeftUnchanged ==
    [][\A f \in PositionFields :
          gps_fix'[f] # gps_fix[f] =>
              /\ gps_fix.queue # <<>>
              /\ SuppliedBy(f) \cap DOMAIN Head(gps_fix.queue).report.d # {}]_vars

\* The objects obtained by decoding a whole stream, splitting it on newlines
\* and parsing each complete, non-blank line that is JSON; the fragment after
\* the last newline yields nothing.
RECURSIVE ParsedLines(_)
ParsedLines(text) ==
    LET i == find(text, "\n", 1)
        line == strip(SubSeq(text, 1, i - 1))
        later == ParsedLines(SubSeq(text, i + 1, Len(text)))
    IN  IF i = 0 THEN <<>>
        ELSE IF line = <<>> \/ json_loads(line) = JSONDecodeError THEN later
        ELSE <<json_loads(line)>> \o later

\* C6: daemon-mode framing is independent of the chunking: while the reader
\* runs, the objects it has dispatched are those of the bytes received so
\* far taken as one stream, however recv split them.
C6_FramingIndependentOfChunking ==
    gps_sess[1].kind = "gpsd" /\ gps_sess[1].pc = "io" /\ gps_sess[1].obj = 1
        => gpsd_rd.dispatched = ParsedLines(decode(SubSeq(gpsd_wire.stream, 1, gpsd_wire.pos)))

\* C11: LoRa polling failures are never thread-fatal: whatever the GET answers
\* (or when it raises) the polling thread goes on to its sleep and from there
\* to the next test of the loop condition, which leads to a further GET while
\* running is set and the Session is stored; the thread ends only at a test
\* that finds running false or the Session cleared.
C11_PollFailureNotFatal ==
    [][\A n \in Sessions : lora_sess[n].kind = "mesh" =>
          /\ (lora_sess[n].pc = "io" /\ lora_sess'[n].pc # "io") =>
                lora_sess'[n].pc = "sleep" /\ lora_sess'[n].poll \in Responses
          /\ (lora_sess[n].pc = "sleep" /\ lora_sess'[n].pc # "sleep") =>
                lora_sess'[n].pc = "check"
          /\ (lora_sess[n].pc = "check" /\ lora_sess'[n].pc # "check") =>
                lora_sess'[n].pc = IF lora.running THEN "check2" ELSE "done"
          /\ (lora_sess[n].pc = "check2" /\ lora_sess'[n].pc # "check2") =>
                lora_sess'[n].pc = IF lora.meshtastic_session # None THEN "io" ELSE "done"
          /\ (Alive(lora_sess[n]) /\ ~Alive(lora_sess'[n])) =>
                ~lora.running \/ lora.meshtastic_session = None ]_vars

\* C11 witness: the polling thread of a Connected client is in its sleep after
\* a GET that raised or answered a status other than 200.
C11_Witness ==
    \E n \in Sessions :
        /\ lora.lora_active /\ lora.running /\ lora.polling_thread = n
        /\ lora_sess[n].pc = "sleep" /\ lora_sess[n].poll \in Responses \ {200}

\* C12: in mesh mode (a Session is stored) send_message posts the text; the TX
\* entry is logged and the input cleared if and only if the POST answered 200;
\* on any other status or an exception Send failed is logged and the input is
\* kept.  When the client is not active or the stripped text is empty,
\* send_message posts nothing, logs nothing and keeps the input.
C12_SendReportsEveryFailure ==
    [][ send_message =>
          IF ~lora.lora_active \/ tx_strip(lora.tx_input) = ""
          THEN lora' = [lora EXCEPT !.post = None, !.sent = "none"]
          ELSE lora.meshtastic_session # None =>
                 /\ lora'.post \in Responses
                 /\ lora'.post = 200 <=> (lora'.sent = "TX" /\ lora'.tx_input = "")
                 /\ lora'.post # 200 =>
                       lora'.sent = "Send failed" /\ lora'.tx_input = lora.tx_input ]_vars

\* C12 witness: connected in mesh mode, a send whose POST answered 404 logged
\* Send failed and kept the text.
C12_Witness ==
    /\ lora.lora_active /\ lora.status = "Connected to Meshtastic"
    /\ lora.post = 404 /\ lora.sent = "Send failed" /\ lora.tx_input = "hi"

\* C13: direct-mode connect is gated by the confirmation dialog: an SPI object
\* is created, and the client becomes active in direct mode, only in a connect
\* whose dialog was answered Yes; a connect whose dialog was declined changes
\* no attribute and no handle.
C13_DirectGatedByConfirmation ==
    [][ /\ (lora'.spi # lora.spi /\ lora'.spi # "none") =>
              toggle_lora /\ lora'.reply = "Yes"
        /\ (lora.mode_combo = 1 /\ ~lora.lora_active /\ lora'.lora_active) =>
              lora'.reply = "Yes" /\ lora'.spi = "open"
        /\ (toggle_lora /\ lora.mode_combo = 1 /\ ~lora.lora_active /\ lora'.reply # "Yes") =>
              /\ lora' = [lora EXCEPT !.reply = lora'.reply]
              /\ lora_sess' = lora_sess ]_vars

\* C13 witness: the dialog of a direct-mode connect was declined; no SPI
\* object, the client not active.
C13_Witness ==
    /\ lora.reply = "No" /\ lora.mode_combo = 1
    /\ lora.spi = "none" /\ ~lora.lora_active /\ ~lora.running

\* C14: direct mode requested while the mesh daemon holds the radio is
\* rejected: no step opens the SPI device while meshtasticd is running.
C14_NoSpiOpenWhileDaemonRuns ==
    [][ (lora'.spi = "open" /\ lora.spi # "open") => ~lora.meshtasticd ]_vars

\* C15: the two LoRa transports are mutually exclusive: no step leaves the
\* mesh Session and the open SPI device both held, and while the client is
\* connected in direct mode send_message issues no POST.
C15_LoraTransportsExclusive ==
    [][ /\ ~(lora'.meshtastic_session # None /\ lora'.spi = "open")
        /\ (send_message /\ lora.lora_active /\ lora.spi = "open") => lora'.post = None ]_vars

\* C16: the two GPS transports are mutually exclusive per session: at most
\* one of the daemon socket and the serial port is held, and a reader thread
\* that is running is the one of the transport whose handle is held: no gpsd
\* reader runs while the serial port is open, no serial reader while the
\* daemon socket is open.
C16_GpsTransportsExclusive ==
    /\ ~(gps.gpsd_socket # None /\ gps.serial_port # None)
    /\ \A n \in LiveGps :
          /\ gps_sess[n].kind = "gpsd" => gps.serial_port = None
          /\ gps_sess[n].kind = "serial" => gps.gpsd_socket = None

\* A successful write by the panel of the block of an I2C chip is on show:
\* the Success box of set_rtc_time for the date and time in the edit fields.
ChipWritten == rtc.dialog = "Success" /\ rtc.rtc_type \in {"pcf85063a", "ds3231"}

\* C17: for every x in 0..99, bcd_to_dec(dec_to_bcd(x)) = x, and dec_to_bcd(x)
\* fits one byte whose two nibbles are both at most 9.
C17_BcdRoundTrip ==
    /\ bcd.pc \in {"encoded", "decoded"} =>
          /\ bcd.x \in 0..99
          /\ bcd.byte \in 0..255
          /\ bcd.byte \div 16 <= 9
          /\ bcd.byte % 16 <= 9
    /\ bcd.pc = "decoded" => bcd.back = bcd.x

\* 99 was encoded as 0x99 and decoded again.
C17_Witness ==
    /\ bcd.pc = "decoded"
    /\ bcd.x = 99
    /\ bcd.byte = 153

\* C18: for every date, the weekday value written to chip B equals the value
\* written to chip A for the same date plus one (chip A 0 = Sunday .. 6 =
\* Saturday, chip B 1 = Sunday .. 7 = Saturday).
C18_ChipBWeekdayIsChipAPlusOne ==
    ChipWritten =>
        IF rtc.rtc_type = "ds3231"
        THEN rtc_chip.regs[4] = set_pcf85063a_data(rtc.set_date, rtc.set_time)[5] + 1
        ELSE rtc_chip.regs[5] + 1 = set_ds3231_data(rtc.set_date, rtc.set_time)[4]

\* C19 as stated: chip B uses the 7-byte layout of chip A, so its decode takes
\* day-of-month and weekday from the offsets chip A uses (3 and 4), and its
\* encode writes them there; the weekday is raw 1-7.
C19_ChipBSameOffsetsAsChipA ==
    /\ rtc.reading.src = "ds3231" =>
          /\ rtc.reading.days = bcd_to_dec(rtc.reading.block[4])
          /\ rtc.reading.weekday = rtc.reading.block[5]
    /\ ChipWritten /\ rtc.rtc_type = "ds3231" =>
          /\ rtc_chip.regs[4] = dec_to_bcd(rtc.set_date.day)
          /\ rtc_chip.regs[5] \in 1..7

\* C19 amended: chip B uses a 7-byte block of seconds, minutes, hours,
\* weekday, day-of-month, month, year: the weekday (raw, written as 1-7) is at
\* offset 3 and the day-of-month at offset 4, swapped with respect to chip A,
\* in the decode and in the encode alike; the other five fields are at the
\* offsets chip A uses.  The decode masks seconds, hours and month only, and
\* names the raw weekday 1 Sunday and 7 Saturday.
C19_ChipBLayout ==
    /\ rtc.reading.src = "ds3231" =>
          LET b == rtc.reading.block IN
          /\ rtc.reading.seconds = bcd_to_dec(b[1] % 128)
          /\ rtc.reading.minutes = bcd_to_dec(b[2])
          /\ rtc.reading.hours = bcd_to_dec(b[3] % 64)
          /\ rtc.reading.weekday = b[4]
          /\ rtc.reading.days = bcd_to_dec(b[5])
          /\ rtc.reading.months = bcd_to_dec(b[6] % 32)
          /\ rtc.reading.years = bcd_to_dec(b[7]) + 2000
          /\ b[4] = 1 => rtc.reading.weekday_name = "Sunday"
          /\ b[4] = 7 => rtc.reading.weekday_name = "Saturday"
    /\ ChipWritten /\ rtc.rtc_type = "ds3231" =>
          LET a == set_pcf85063a_data(rtc.set_date, rtc.set_time) IN
          /\ rtc_chip.regs[4] \in 1..7
          /\ rtc_chip.regs[5] = dec_to_bcd(rtc.set_date.day)
          /\ rtc_chip.regs[5] = a[4]
          /\ \A i \in {1, 2, 3, 6, 7} : rtc_chip.regs[i] = a[i]

\* A decode of a chip-B block whose bytes at offsets 3 and 4 differ, and a
\* write of chip B.
C19_Witness ==
    /\ rtc.reading.src = "ds3231"
    /\ rtc.reading.block[4] # rtc.reading.block[5]
    /\ rtc.reading.block = rtc_chip.regs
    /\ ChipWritten
    /\ rtc.rtc_type = "ds3231"

\* C20: the chip-A decode of a 7-byte block b is seconds = bcd(b[0] & 0x7F),
\* minutes = bcd(b[1] & 0x7F), hours = bcd(b[2] & 0x3F), day = bcd(b[3] &
\* 0x3F), weekday = b[4] & 0x07, month = bcd(b[5] & 0x1F), year = bcd(b[6]) +
\* 2000; the oscillator-stop bit of b[0] never changes the decoded seconds.
C20_ChipADecode ==
    rtc.reading.src = "pcf85063a" =>
        LET b == rtc.reading.block
            digits(v) == ((v \div 16) * 10) + (v % 16)
        IN /\ rtc.reading.seconds = digits(b[1] % 128)
           /\ rtc.reading.minutes = digits(b[2] % 128)
           /\ rtc.reading.hours = digits(b[3] % 64)
           /\ rtc.reading.days = digits(b[4] % 64)
           /\ rtc.reading.weekday = b[5] % 8
           /\ rtc.reading.months = digits(b[6] % 32)
           /\ rtc.reading.years = digits(b[7]) + 2000
           /\ rtc.reading.seconds =
                 read_pcf85063a([b EXCEPT ![1] = IF @ >= 128 THEN @ - 128 ELSE @ + 128]).seconds

\* A decode of a chip-A block whose oscillator-stop bit is set.
C20_Witness ==
    /\ rtc.reading.src = "pcf85063a"
    /\ rtc.reading.block[1] >= 128
    /\ rtc.reading.seconds = 85

\* C21: a chip-A time write is one 7-byte block write at the seconds register
\* (0x04), followed immediately by a read and a write of control register 1
\* (0x00) that clears its top bit and keeps its other seven bits; when the
\* block write fails, nothing more is transferred, the chip is unchanged and
\* the Error box is shown; after a successful write bit 7 of the seconds
\* register is clear.
C21_ChipAWriteSequence ==
    [][ (rtc'.sets = rtc.sets + 1 /\ rtc.rtc_active /\ rtc.rtc_type = "pcf85063a") =>
          LET ops == rtc'.ops IN
          /\ Len(ops) >= 1
          /\ ops[1] = Transfer("write_block", 4, 7)
          /\ \A i \in 2..Len(ops) : ops[i].op # "write_block"
          /\ Len(ops) >= 2 => ops[2] = Transfer("read_byte", 0, 1)
          /\ Len(ops) >= 3 => ops[3] = Transfer("write_byte", 0, 1)
          /\ Len(ops) <= 3
          /\ Len(ops) = 1 => rtc'.dialog = "Error" /\ rtc_chip' = rtc_chip
          /\ rtc'.dialog # "Success" => rtc'.dialog = "Error" /\ rtc_chip'.ctrl1 = rtc_chip.ctrl1
          /\ rtc'.dialog = "Success" =>
                /\ Len(ops) = 3
                /\ rtc_chip'.regs = set_pcf85063a_data(rtc'.set_date, rtc'.set_time)
                /\ rtc_chip'.regs[1] < 128
                /\ rtc_chip'.ctrl1 = rtc_chip.ctrl1 % 128
                /\ rtc_chip'.ctrl1 < 128 ]_vars

\* A successful chip-A write on a chip whose control register had all bits set.
C21_Witness ==
    /\ ChipWritten
    /\ rtc.rtc_type = "pcf85063a"
    /\ Len(rtc.ops) = 3
    /\ rtc_chip.ctrl1 = 127
    /\ rtc_chip.regs[1] < 128

\* C22: bus discovery tries the configured bus and then 1, 22, 11, 3 in that
\* order; the first candidate whose register read succeeds wins and no later
\* candidate is opened; every candidate that failed has its handle closed;
\* when all candidates fail the connect reports an error and rtc_active stays
\* false.
C22_BusDiscoveryOrder ==
    LET buses == <<rtc.i2c_bus_num, 1, 22, 11, 3>>
        Answering == {k \in 1..5 : i2c[buses[k]] = "chip"}
    IN /\ rtc.leaked = {}
       /\ rtc.i2c_open => rtc.rtc_active
       /\ rtc.status = "Connected" =>
             /\ Answering # {}
             /\ LET first == CHOOSE k \in Answering : \A j \in Answering : k <= j IN
                /\ rtc.tried = SubSeq(buses, 1, first)
                /\ rtc.i2c_bus = buses[first]
                /\ rtc.i2c_open
                /\ rtc.rtc_active
       /\ rtc.status = "Connection failed" =>
             /\ Answering = {}
             /\ rtc.tried = buses
             /\ ~rtc.i2c_open
             /\ ~rtc.rtc_active

\* The chip was found on the last candidate after a bus that opened but did
\* not answer and a bus that did not open.
C22_Witness ==
    /\ rtc.status = "Connected"
    /\ Len(rtc.tried) = 5
    /\ i2c[rtc.tried[1]] = "silent"
    /\ i2c[rtc.tried[2]] = "absent"
    /\ rtc.i2c_bus = 3
    /\ rtc.i2c_open

C24_CaptureNeverExitsSilently ==
    \A k \in Threads :
        (sdr_thr[k].pc = "done" /\ ~sdr_thr[k].stop_req) => sdr_thr[k].exit = "error_reported"

\* A capture thread ended on a failed read while no stop had been requested.
C24_Witness ==
    \E k \in Threads :
        /\ sdr_thr[k].pc = "done"
        /\ ~sdr_thr[k].stop_req
        /\ sdr_thr[k].exit = "error_reported"
        /\ sdr.running

\* C25: re-tuning while Capturing does not tear down the capture thread: a
\* step that shows the Tuned status while running is set, or that changes the
\* tuning of the device held while running is set, leaves the device open
\* with the center frequency and sample rate of the widgets, running true,
\* the thread handle the same and every capture thread where it was.
C25_RetuneKeepsCapture ==
    [][ LET d == sdr.sdr
            tuned == sdr'.status = "Tuned" /\ sdr.status # "Tuned"
            retuned == /\ d # None
                       /\ \/ sdr_dev'[d].center_freq # sdr_dev[d].center_freq
                          \/ sdr_dev'[d].sample_rate # sdr_dev[d].sample_rate
        IN (sdr.running /\ (tuned \/ retuned)) =>
              /\ d # None
              /\ sdr'.sdr = d
              /\ sdr_dev'[d].handle = "open"
              /\ sdr_dev'[d].center_freq = sdr.freq_spin * 1000000
              /\ sdr_dev'[d].sample_rate = SampleRateOf(sdr.sample_rate_combo)
              /\ sdr'.current_freq = sdr.freq_spin * 1000000
              /\ sdr'.sample_rate = SampleRateOf(sdr.sample_rate_combo)
              /\ sdr'.running
              /\ sdr'.capture_thread = sdr.capture_thread
              /\ sdr_thr' = sdr_thr ]_vars

\* The device was re-tuned to 433 MHz and 250 kHz while its capture thread
\* was in the loop.
C25_Witness ==
    /\ sdr.status = "Tuned"
    /\ sdr.running
    /\ sdr.capture_thread # None
    /\ sdr_thr[sdr.capture_thread].pc \in {"check", "check2", "io"}
    /\ ~sdr_thr[sdr.capture_thread].stop_req
    /\ sdr.sdr # None
    /\ sdr_dev[sdr.sdr].center_freq = 433000000
    /\ sdr_dev[sdr.sdr].sample_rate = 250000

\* C26: for every analysis window of N = 1024 bins, the reported peak power
\* is the maximum bin power and the reported peak frequency equals
\* center_freq + (bin - N/2) * sample_rate / N for the bin holding that
\* maximum, so it lies in [center_freq - sample_rate/2, center_freq +
\* sample_rate/2).
C26_SpectrumPeak ==
    dsp.pc = "emitted" =>
        LET w == dsp.power_db
            offset == (dsp.peak_freq.hz - dsp.current_freq) * 1024 + dsp.peak_freq.frac
        IN /\ DOMAIN w = 0..1023
           /\ \A i \in 0..1023 : w[i] <= dsp.peak_power
           /\ dsp.peak_idx \in 0..1023
           /\ w[dsp.peak_idx] = dsp.peak_power
           /\ dsp.peak_freq.frac \in 0..1023
           /\ offset = (dsp.peak_idx - 512) * dsp.sample_rate
           /\ -(512 * dsp.sample_rate) <= offset
           /\ offset < 512 * dsp.sample_rate

\* A window whose dominant bin is the last one, with its twin wrapped round to
\* bin 6, was analysed: the peak is reported below the centre frequency.
C26_Witness ==
    /\ dsp.pc = "emitted"
    /\ dsp.power_db[1023] = 1234
    /\ dsp.power_db[6] = 1234
    /\ dsp.peak_idx = 6
    /\ dsp.peak_power = 1234
    /\ dsp.peak_freq.hz < dsp.current_freq

\* C28: a gpsd position report that carries a speed of s metres per second
\* is emitted as a reading with speed s * 3.6 kilometres per hour, and a
\* position report without a speed is emitted with speed 0.
C28_GpsdSpeedInKmh ==
    \A i \in 1..Len(gps_fix.emitted) :
        LET it == gps_fix.emitted[i]
            s == Get(it.report, "speed", Null)
        IN  Get(it.report, "class", Null) = Str(TPVName) =>
               IF "speed" \in DOMAIN it.report.d
               THEN s.t = "num" /\ it.data.speed.t = "num" /\ 10 * it.data.speed.n = 36 * s.n
               ELSE it.data.speed = Num(0)

\* The report with speed 2.5 m/s was emitted as a reading of 9.00 km/h, and
\* the slot stored it.
C28_Witness ==
    /\ \E i \in 1..Len(gps_fix.delivered) :
          /\ Get(gps_fix.delivered[i].report, "speed", Null) = Num(250)
          /\ gps_fix.delivered[i].data.speed = Num(900)
    /\ gps_fix.speed = Num(900)

C27_EveryGgaYieldsFixMode ==
    \A i \in 1..nmea.pos :
        LET line == nmea.lines[i] IN
        (line.dollar /\ line.valid /\ line.sentence.sentence_type = "GGA") =>
            \E j \in 1..Len(gps_fix.emitted) :
                /\ gps_fix.emitted[j].report.at = i
                /\ gps_fix.emitted[j].data.fix_mode =
                      IF line.sentence.gps_qual \in {"1", "2"} THEN Num(300) ELSE Num(100)

\* C30: every RMC sentence the serial reader handled whose speed field is a
\* number of k knots, k = 0 included, yielded a reading with speed k * 1.852
\* km/h and with the sentence's true course as track, 0 when it has none.
C30_RmcSpeedInKmh ==
    \A i \in 1..nmea.pos :
        LET line == nmea.lines[i]
            m == line.sentence
        IN  (line.dollar /\ line.valid /\ m.sentence_type = "RMC"
                /\ m.spd_over_grnd \in DOMAIN NmeaValue) =>
            \E j \in 1..Len(gps_fix.emitted) :
                /\ gps_fix.emitted[j].report.at = i
                /\ 1000 * gps_fix.emitted[j].data.speed.n = 1852 * NmeaValue[m.spd_over_grnd]
                /\ gps_fix.emitted[j].data.track =
                      IF m.true_course = "" THEN Num(0) ELSE Num(NmeaValue[m.true_course])

\* C31: when a stop has been requested and no connect follows (running stays
\* false), every reader thread of the panel eventually has exited, given that
\* each blocking read returns or times out; and a teardown that has begun
\* always returns, since its join is bounded.
C31_StopEventuallyObserved ==
    /\ (<>[](~gps.running)) => <>[](LiveGps = {})
    /\ (<>[](~lora.running)) => <>[](LiveLora = {})
    /\ (<>[](~sdr.running)) => <>[](LiveSdr = {})
    /\ [](gps.pc = "join" => <>(gps.pc = "idle"))
    /\ [](lora.pc = "join" => <>(lora.pc = "idle"))
    /\ [](sdr.pc \in {"join_stop", "join_deinit"} => <>(sdr.pc = "idle"))

\* A capture thread that was in its loop when stop_capture cleared running
\* has left the loop at its next test of the flag, the device still open.
C31_Witness ==
    /\ tab = "sdr"
    /\ ~sdr.running /\ sdr.sdr # None /\ sdr.pc = "idle"
    /\ \E k \in Threads : sdr_thr[k].pc = "done" /\ sdr_thr[k].stop_req
                           /\ sdr_thr[k].exit = "stop"

\* C32: once gpsd has closed the connection, the reader thread eventually
\* leaves its loop, with no disconnect requested (unless the process ended
\* before).
C32_EofEndsReader ==
    [](gpsd_wire.closed /\ gps_fix.slot # "aborted"
          => <>(~Alive(gps_sess[1]) \/ gps_fix.slot = "aborted"))

\* C33: whenever RTLSDRPanel.running is true, the capture thread the panel
\* holds is alive; so after the capture loop has ended on an error, running
\* is false and toggle_capture starts a capture.
C33_RunningImpliesCaptureAlive ==
    sdr.running =>
        /\ sdr.capture_thread # None
        /\ Alive(sdr_thr[sdr.capture_thread])

\* C34: the centre frequency and the sample rate a frame's peak frequency
\* was computed with are the ones the device had when the frame's samples
\* were read, however apply_settings interleaves with the capture loop.
C34_FrameMatchesTuning ==
    dsp.pc = "emitted" =>
        /\ dsp.current_freq = dsp.tuned_freq
        /\ dsp.sample_rate = dsp.tuned_rate

\* C35: a held handle implies an active component: between handlers, the
\* HTTP session is null unless the LoRa client is active, the device handle is
\* null unless the SDR is active, and the bus handle is null unless the RTC
\* is active; so a failed connect retains no handle.
C35_NoHandleUnlessActive ==
    /\ (lora.pc = "idle" /\ lora.meshtastic_session # None) => lora.lora_active
    /\ (sdr.pc = "idle" /\ sdr.sdr # None) => sdr.sdr_active
    /\ rtc.i2c_bus # None => rtc.rtc_active

\* C36: a serial reader thread never ends by an unhandled exception: however
\* disconnect_gps interleaves with it, the thread ends by leaving its loop
\* (or by returning before it), never by evaluating its loop condition on a
\* null serial_port.
C36_SerialReaderNeverCrashes ==
    \A n \in Sessions : gps_sess[n].kind = "serial" => gps_sess[n].pc # "crashed"

\* C37: after any sequence of readings the consumer applied, the stored
\* satellites-used count does not exceed the stored satellites-in-view count.
C37_UsedNeverExceedsInView ==
    gps_fix.satellites_used.n <= gps_fix.satellites.n

\* The reading gives back the date and the time that were written, and the
\* weekday name of that date.
RoundTrip ==
    /\ bcd.reading.seconds = bcd.time.second
    /\ bcd.reading.minutes = bcd.time.minute
    /\ bcd.reading.hours = bcd.time.hour
    /\ bcd.reading.days = bcd.date.day
    /\ bcd.reading.months = bcd.date.month
    /\ bcd.reading.years = bcd.date.year
    /\ bcd.reading.weekday_name = DayName(bcd.date)

\* C38: for every date of 2000..2099 and its time of day, _read_pcf85063a on
\* the block _set_pcf85063a writes yields the same second, minute, hour, day,
\* month and year, and the weekday name of the date.
C38_ChipARoundTrip ==
    (bcd.pc = "read" /\ bcd.rtc_type = "pcf85063a") => RoundTrip

\* Sunday 2099-12-27 (weekday 0 on chip A) went through chip A and came back.
C38_Witness ==
    /\ bcd.pc = "read" /\ bcd.rtc_type = "pcf85063a"
    /\ bcd.date = [year |-> 2099, month |-> 12, day |-> 27]
    /\ bcd.data[5] = 0
    /\ bcd.reading.weekday_name = "Sunday"
    /\ bcd.reading.years = 2099

\* C39: for every date of 2000..2099 and its time of day, _read_ds3231 on
\* the block _set_ds3231 writes yields the same second, minute, hour, day,
\* month and year, and the weekday name of the date.
C39_ChipBRoundTrip ==
    (bcd.pc = "read" /\ bcd.rtc_type = "ds3231") => RoundTrip

====
